---- MODULE Spec2Model ----
(***************************************************************************)
(* State-machine model of the Thingpilot NB-IoT interface                  *)
(* (tp_nbiot_interface.cpp / tp_nbiot_interface.h).                        *)
(*                                                                         *)
(* The facade object is modelled together with the modem driver it calls   *)
(* (_modem, a SaraN2): every driver call is recorded in `calls` with the   *)
(* code the driver returned, the driver's result code is chosen by the     *)
(* environment, and the modem keeps the timer strings, the UE settings and *)
(* the CoAP profile it is given.                                           *)
(***************************************************************************)
EXTENDS Integers, Sequences, FiniteSets, TLC

VARIABLES
    driver,             \* _driver
    pc,                 \* position of the application/facade: "idle", a step of a running operation, "returned"
    op,                 \* facade operation running or just returned
    args,               \* its arguments (a record)
    ret,                \* its return value once pc = "returned"
    calls,              \* driver calls issued by the operation, in order: [fn, arg, rc]
    timer_sel,          \* the timer this session configures: "T3412" or "T3324"
    t3412,              \* modem: T3412 string last accepted by set_t3412_timer
    t3324,              \* modem: T3324 string last accepted by set_t3324_timer
    accepted,           \* history: the (unit, multiples) of the last set_* call the modem accepted
    unit,               \* caller's unit variable (reference parameter of get_tau_timer/get_active_time)
    multiples,          \* caller's multiples variable (reference parameter)
    conn_status,        \* TP_Connection_Status variable handed to get_module_network_status
    connected,          \* caller's connected variable
    registered,         \* caller's registered variable
    psm,                \* caller's psm variable
    band,               \* caller's band variable (reference parameter of get_band)
    now,                \* time(NULL)
    start_time,         \* start_time local of ready/start
    stall,              \* sleeps of the running loop since the clock last advanced
    buffer_len,         \* coap_post: buffer_len
    done,               \* coap_post: done
    send_block_number,  \* coap_post: send_block_number (uint8_t)
    send_more_block,    \* coap_post: send_more_block (uint8_t)
    buff512,            \* coap_post: the 512-byte staging buffer, cell i holds the index of the
                        \* send_data byte copied into it, or a negative number for heap content
    ue_config,          \* modem: the UE settings written by configure_ue, 0 or 1 each
    coap_profile,       \* modem: the URI of CoAP profile 0, in the working copy and as saved
    sleeps,             \* history: the ThisThread::sleep_for calls of the running operation,
                        \* [after |-> number of driver calls issued before the sleep, ms |-> its length]
    caller,             \* two threads on one interface: for each, the operation it is in, the number
                        \* of driver calls it has made, where it is, and the value returned
    bus,                \* history: the begin and the end of every driver transaction, in order
    in_flight,          \* the callers that are inside a driver call
    modem_dtors,        \* the number of runs of ~SaraN2() on _modem
    staging_live,       \* the number of new uint8_t[512] buffers of coap_post not deleted
    timer_binary        \* set_tau_timer / set_active_time: char binary[8]

appVars   == <<pc, op, args, ret, calls>>
timerVars == <<t3412, t3324, accepted, unit, multiples>>
statVars  == <<conn_status, connected, registered, psm, band>>
clockVars == <<now, start_time, stall, sleeps>>
postVars  == <<buffer_len, done, send_block_number, send_more_block, buff512>>
modemVars == <<ue_config, coap_profile>>
callerVars == <<caller, bus, in_flight>>
lifeVars  == <<modem_dtors, staging_live>>
vars == <<driver, timer_sel, appVars, timerVars, statVars, clockVars, postVars, modemVars, callerVars,
          lifeVars, timer_binary>>

(***************************************************************************)
(* Enumerations of tp_nbiot_interface.h                                    *)
(***************************************************************************)
UNDEFINED == 0
SARAN2    == 1

NBIOT_OK           == 0
DRIVER_UNKNOWN     == 60
EXCEEDS_MAX_VALUE  == 61
INVALID_UNIT_VALUE == 62
FAIL_TO_CONNECT    == 63

ACTIVE_NO_NETWORK_ACTIVITY       == 0
ACTIVE_SCANNING_FOR_BASE_STATION == 1
ACTIVE_STARTING_REGISTRATION     == 2
ACTIVE_REGISTERED_RRC_CONNECTED  == 3
ACTIVE_REGISTERED_RRC_RELEASED   == 4
PSM_REGISTERED                   == 5
REGISTRATION_FAILED              == 6
STATE_UNDEFINED                  == 7

T3412_HR_320  == 0
T3412_HR_10   == 1
T3412_HR_1    == 2
T3412_MIN_10  == 3
T3412_MIN_1   == 4
T3412_SEC_30  == 5
T3412_SEC_2   == 6
T3412_DEACT   == 7
T3412_INVALID == 8

T3324_MIN_6   == 0
T3324_MIN_1   == 1
T3324_SEC_2   == 2
T3324_DEACT   == 3
T3324_INVALID == 4

BAND_8       == 0
BAND_20      == 1
BAND_UNKNOWN == 2

EARFCN_B8_LOW   == 3450
EARFCN_B8_HIGH  == 3799
EARFCN_B20_LOW  == 6150
EARFCN_B20_HIGH == 6449

(***************************************************************************)
(* Characters are their ASCII codes.                                       *)
(***************************************************************************)
NUL  == 0
Chr0 == 48
Chr1 == 49

\* content of a cell of a local array that no statement has written yet
Unwritten == -1

\* the C string held in a char array: the cells before the first NUL
RECURSIVE CStrFrom(_, _)
CStrFrom(arr, k) ==
    IF k \notin DOMAIN arr \/ arr[k] = NUL THEN <<>>
    ELSE <<arr[k]>> \o CStrFrom(arr, k + 1)

CStr(arr) == CStrFrom(arr, 0)

\* strncmp(timer, lit, 3) == 0 for a 3-character literal
Strncmp3Eq(timer, lit) ==
    /\ timer[0] = lit[1]
    /\ timer[1] = lit[2]
    /\ timer[2] = lit[3]

(***************************************************************************)
(* Environment: result codes the driver may return, and the inputs drawn   *)
(***************************************************************************)
\* driver-assigned error codes lie below 60
DriverErrors == {4, 59}
DriverCodes  == {NBIOT_OK} \cup DriverErrors
\* the timer operations make one driver call each: one error code tells all outcomes apart
TimerDriverCodes == {NBIOT_OK, 4}

MaxMultiples == 31
Uint8 == 256

\* multiples arguments: every legal value and some above the limit
MultiplesArgs == 0..MaxMultiples \cup {32, 33, 255}
\* values the caller's multiples variable may hold before a get
MultiplesBefore == {0, 5, 250}
\* unit arguments: every enumerator, and a value that is none of them
T3412Args == T3412_HR_320..(T3412_INVALID + 1)
T3324Args == T3324_MIN_6..(T3324_INVALID + 1)

\* no set_* call has been accepted yet
NothingAccepted == [unit |-> -1, multiples |-> -1]

\* the timer string the modem holds before the session sets one
ModemDefaultTimer == <<Chr0, Chr0, Chr0, Chr0, Chr0, Chr0, Chr0, Chr0>>

(***************************************************************************)
(* dec_to_bin_5_bit                                                        *)
(***************************************************************************)
\* first loop: buffer[i] = multiples % 2; multiples = multiples / 2
RECURSIVE BinDigits(_)
BinDigits(m) == IF m > 0 THEN <<m % 2>> \o BinDigits(m \div 2) ELSE <<>>

\* sprintf(&binary[at], "%d", d) for a one-digit d: the digit and a terminating NUL
Sprintf1(binary, at, d) ==
    [k \in DOMAIN binary |->
        IF k = at THEN Chr0 + d
        ELSE IF k = at + 1 THEN NUL
        ELSE binary[k]]

RECURSIVE PadLoop(_, _, _)
PadLoop(binary, j, padding) ==
    IF j < padding THEN PadLoop(Sprintf1(binary, j, 0), j + 1, padding)
    ELSE binary

\* the third loop taking the digits of buffer from index 0 upwards
RECURSIVE DigitLoop_lsb_first(_, _, _, _)
DigitLoop_lsb_first(binary, buffer, padding, index) ==
    IF padding < 5
    THEN DigitLoop_lsb_first(Sprintf1(binary, padding, buffer[Len(buffer) - index]),
                             buffer, padding + 1, index - 1)
    ELSE binary

RECURSIVE DigitLoop(_, _, _, _)
DigitLoop(binary, buffer, padding, index) ==
    IF padding < 5
    THEN DigitLoop(Sprintf1(binary, padding, buffer[index + 1]), buffer, padding + 1, index - 1)
    ELSE binary

\* char binary[8]; as declared: no cell written
NoBinary == [k \in 0..7 |-> Unwritten]

\* dec_to_bin_5_bit without its left-padding loop
dec_to_bin_5_bit_unpadded(m) ==
    LET buffer  == BinDigits(m)
        padding == 5 - Len(buffer)
        fresh   == [k \in 0..7 |-> Unwritten]
    IN  DigitLoop(fresh, buffer, padding, 4 - padding)

\* the caller's char binary[8] after the call
dec_to_bin_5_bit(m) ==
    LET buffer  == BinDigits(m)
        i       == Len(buffer)
        padding == 5 - i
        fresh   == [k \in 0..7 |-> Unwritten]
    IN  DigitLoop(PadLoop(fresh, 0, padding), buffer, padding, 4 - padding)

(***************************************************************************)
(* set_tau_timer / set_active_time                                         *)
(***************************************************************************)
\* the range check of the set_* operations, off by one
ExceedsMax_off_by_one(m) == m > MaxMultiples + 1

\* if(multiples > 31) return EXCEEDS_MAX_VALUE;
ExceedsMax(m) == m > MaxMultiples

\* the switch of set_tau_timer with the strings of MIN_1 and SEC_30 exchanged
UnitChar_T3412_swapped(u) ==
    CASE u = T3412_HR_320 -> <<Chr1, Chr1, Chr0>>
      [] u = T3412_HR_10  -> <<Chr0, Chr1, Chr0>>
      [] u = T3412_HR_1   -> <<Chr0, Chr0, Chr1>>
      [] u = T3412_MIN_10 -> <<Chr0, Chr0, Chr0>>
      [] u = T3412_MIN_1  -> <<Chr1, Chr0, Chr0>>
      [] u = T3412_SEC_30 -> <<Chr1, Chr0, Chr1>>
      [] u = T3412_SEC_2  -> <<Chr0, Chr1, Chr1>>
      [] u = T3412_DEACT  -> <<Chr1, Chr1, Chr1>>
      [] OTHER            -> <<>>

\* the switch of set_tau_timer: the 3 unit characters, <<>> for the default branch
UnitChar_T3412(u) ==
    CASE u = T3412_HR_320 -> <<Chr1, Chr1, Chr0>>
      [] u = T3412_HR_10  -> <<Chr0, Chr1, Chr0>>
      [] u = T3412_HR_1   -> <<Chr0, Chr0, Chr1>>
      [] u = T3412_MIN_10 -> <<Chr0, Chr0, Chr0>>
      [] u = T3412_MIN_1  -> <<Chr1, Chr0, Chr1>>
      [] u = T3412_SEC_30 -> <<Chr1, Chr0, Chr0>>
      [] u = T3412_SEC_2  -> <<Chr0, Chr1, Chr1>>
      [] u = T3412_DEACT  -> <<Chr1, Chr1, Chr1>>
      [] OTHER            -> <<>>

\* the switch of set_active_time with DEACT as its default branch
UnitChar_T3324_default_deact(u) ==
    CASE u = T3324_MIN_6 -> <<Chr0, Chr1, Chr0>>
      [] u = T3324_MIN_1 -> <<Chr0, Chr0, Chr1>>
      [] u = T3324_SEC_2 -> <<Chr0, Chr0, Chr0>>
      [] OTHER           -> <<Chr1, Chr1, Chr1>>

\* the switch of set_active_time
UnitChar_T3324(u) ==
    CASE u = T3324_MIN_6 -> <<Chr0, Chr1, Chr0>>
      [] u = T3324_MIN_1 -> <<Chr0, Chr0, Chr1>>
      [] u = T3324_SEC_2 -> <<Chr0, Chr0, Chr0>>
      [] u = T3324_DEACT -> <<Chr1, Chr1, Chr1>>
      [] OTHER           -> <<>>

\* char data[9]: data[8] = NUL, data[0..2] = unit_char, data[3..7] = binary[0..4]
TimerData(unit_char, binary) ==
    [k \in 0..8 |->
        IF k < 3 THEN unit_char[k + 1]
        ELSE IF k < 8 THEN binary[k - 3]
        ELSE NUL]

Call(fn, arg, rc) == [fn |-> fn, arg |-> arg, rc |-> rc]

\* the argument record of an operation without arguments
NoArgs == [none |-> TRUE]

(***************************************************************************)
(* The modem behind the driver: a call the driver reports as NBIOT_OK has  *)
(* taken effect, any other call has left the modem as it was.              *)
(***************************************************************************)
\* the settings of SaraN2::configure_ue the facade writes
UeSettings ==
    {"AUTOCONNECT", "SCRAMBLING", "SI_AVOID", "COMBINE_ATTACH", "CELL_RESELECTION",
     "ENABLE_BIP", "NAS_SIM_PSM_ENABLE"}

\* configure_ue(setting, TRUE/FALSE) writes one setting and no other
UeAfter(ue, c) ==
    IF c.fn = "configure_ue" /\ c.rc = NBIOT_OK
    THEN [ue EXCEPT ![c.arg[1]] = IF c.arg[2] = "TRUE" THEN 1 ELSE 0]
    ELSE ue

\* CoAP profile 0: set_coap_uri writes the working copy, save_profile stores the working
\* copy, load_profile brings the stored profile back; the address and port are the same
\* in every call, so the URI (identified by its length) stands for the whole profile
ProfileAfter(p, c) ==
    IF c.rc # NBIOT_OK THEN p
    ELSE IF c.fn = "set_coap_uri" THEN [p EXCEPT !.working = c.arg[2]]
    ELSE IF c.fn = "save_profile" THEN [p EXCEPT !.saved = p.working]
    ELSE IF c.fn = "load_profile" THEN [p EXCEPT !.working = p.saved]
    ELSE p

RECURSIVE ModemUe(_, _)
ModemUe(ue, cs) == IF cs = <<>> THEN ue ELSE ModemUe(UeAfter(ue, Head(cs)), Tail(cs))

RECURSIVE ModemProfile(_, _)
ModemProfile(p, cs) == IF cs = <<>> THEN p ELSE ModemProfile(ProfileAfter(p, Head(cs)), Tail(cs))

\* the effect on the modem of the driver calls a step of the facade has issued
ModemEffect ==
    LET issued == SubSeq(calls', Len(calls) + 1, Len(calls'))
    IN  /\ ue_config' = ModemUe(ue_config, issued)
        /\ coap_profile' = ModemProfile(coap_profile, issued)

\* one set_* call: the return value, the driver calls made and the string the modem keeps
SetTimer(unit_char, m, fn, held, rc) ==
    IF ExceedsMax(m)
    THEN [ret |-> EXCEEDS_MAX_VALUE, calls |-> <<>>, held |-> held]
    ELSE IF unit_char = <<>>
    THEN [ret |-> INVALID_UNIT_VALUE, calls |-> <<>>, held |-> held]
    ELSE IF driver = SARAN2
    THEN LET data == TimerData(unit_char, dec_to_bin_5_bit(m))
         IN  [ret   |-> rc,
              calls |-> <<Call(fn, data, rc)>>,
              held  |-> IF rc = NBIOT_OK THEN CStr(data) ELSE held]
    ELSE [ret |-> DRIVER_UNKNOWN, calls |-> <<>>, held |-> held]

set_tau_timer(u, m, rc) ==
    /\ pc = "idle"
    /\ timer_sel = "T3412"
    /\ \E r \in {SetTimer(UnitChar_T3412(u), m, "set_t3412_timer", t3412, rc)} :
           /\ (r.calls = <<>> => rc = NBIOT_OK)
           /\ pc' = "returned"
           /\ op' = "set_tau_timer"
           /\ args' = [unit |-> u, multiples |-> m]
           /\ ret' = r.ret
           /\ calls' = r.calls
           /\ t3412' = r.held
           /\ timer_binary' = IF ExceedsMax(m) THEN timer_binary ELSE dec_to_bin_5_bit(m)
           /\ accepted' = IF r.calls # <<>> /\ r.ret = NBIOT_OK
                           THEN [unit |-> u, multiples |-> m] ELSE accepted
    /\ ModemEffect
    /\ UNCHANGED <<driver, timer_sel, callerVars, lifeVars, t3324, unit, multiples, statVars, clockVars, postVars>>

set_active_time(u, m, rc) ==
    /\ pc = "idle"
    /\ timer_sel = "T3324"
    /\ \E r \in {SetTimer(UnitChar_T3324(u), m, "set_t3324_timer", t3324, rc)} :
           /\ (r.calls = <<>> => rc = NBIOT_OK)
           /\ pc' = "returned"
           /\ op' = "set_active_time"
           /\ args' = [unit |-> u, multiples |-> m]
           /\ ret' = r.ret
           /\ calls' = r.calls
           /\ t3324' = r.held
           /\ timer_binary' = IF ExceedsMax(m) THEN timer_binary ELSE dec_to_bin_5_bit(m)
           /\ accepted' = IF r.calls # <<>> /\ r.ret = NBIOT_OK
                           THEN [unit |-> u, multiples |-> m] ELSE accepted
    /\ ModemEffect
    /\ UNCHANGED <<driver, timer_sel, callerVars, lifeVars, t3412, unit, multiples, statVars, clockVars, postVars>>

(***************************************************************************)
(* get_tau_timer / get_active_time                                         *)
(***************************************************************************)
\* char timer[10] after the driver copied the held string into it
TimerBuf(held) ==
    [k \in 0..9 |->
        IF k < Len(held) THEN held[k + 1]
        ELSE IF k = Len(held) THEN NUL
        ELSE Unwritten]

\* the if/else chain of get_tau_timer(T3412_units&, uint8_t&)
DecodeUnit_T3412(timer) ==
    IF Strncmp3Eq(timer, <<Chr1, Chr1, Chr0>>) THEN T3412_HR_320
    ELSE IF Strncmp3Eq(timer, <<Chr0, Chr1, Chr0>>) THEN T3412_HR_10
    ELSE IF Strncmp3Eq(timer, <<Chr0, Chr0, Chr1>>) THEN T3412_HR_1
    ELSE IF Strncmp3Eq(timer, <<Chr0, Chr0, Chr0>>) THEN T3412_MIN_10
    ELSE IF Strncmp3Eq(timer, <<Chr1, Chr0, Chr1>>) THEN T3412_MIN_1
    ELSE IF Strncmp3Eq(timer, <<Chr1, Chr0, Chr0>>) THEN T3412_SEC_30
    ELSE IF Strncmp3Eq(timer, <<Chr0, Chr1, Chr1>>) THEN T3412_SEC_2
    ELSE IF Strncmp3Eq(timer, <<Chr1, Chr1, Chr1>>) THEN T3412_DEACT
    ELSE T3412_INVALID

\* the chain of get_active_time ending in DEACT in place of INVALID
DecodeUnit_T3324_else_deact(timer) ==
    IF Strncmp3Eq(timer, <<Chr0, Chr1, Chr0>>) THEN T3324_MIN_6
    ELSE IF Strncmp3Eq(timer, <<Chr0, Chr0, Chr1>>) THEN T3324_MIN_1
    ELSE IF Strncmp3Eq(timer, <<Chr0, Chr0, Chr0>>) THEN T3324_SEC_2
    ELSE T3324_DEACT

\* the if/else chain of get_active_time(T3324_units&, uint8_t&)
DecodeUnit_T3324(timer) ==
    IF Strncmp3Eq(timer, <<Chr0, Chr1, Chr0>>) THEN T3324_MIN_6
    ELSE IF Strncmp3Eq(timer, <<Chr0, Chr0, Chr1>>) THEN T3324_MIN_1
    ELSE IF Strncmp3Eq(timer, <<Chr0, Chr0, Chr0>>) THEN T3324_SEC_2
    ELSE IF Strncmp3Eq(timer, <<Chr1, Chr1, Chr1>>) THEN T3324_DEACT
    ELSE T3324_INVALID

\* for(int i = 3; i < 8; i++): multiples = multiples + binary_value on a '1'; uint8_t arithmetic
RECURSIVE DecodeLoop(_, _, _, _)
DecodeLoop(timer, i, binary_value, mult) ==
    IF i < 8
    THEN LET m2 == IF timer[i] = Chr1 THEN (mult + binary_value) % Uint8 ELSE mult
         IN  IF binary_value = 1 THEN m2
             ELSE DecodeLoop(timer, i + 1, binary_value \div 2, m2)
    ELSE mult

\* the loop started one character late
DecodeMultiples_from_4(timer, mult) == DecodeLoop(timer, 4, 16, mult)

DecodeMultiples(timer, mult) == DecodeLoop(timer, 3, 16, mult)

get_tau_timer(unit_before, mult_before, rc) ==
    /\ pc = "idle"
    /\ timer_sel = "T3412"
    /\ pc' = "returned"
    /\ op' = "get_tau_timer"
    /\ args' = [unit |-> unit_before, multiples |-> mult_before]
    /\ IF driver = SARAN2
       THEN /\ calls' = <<Call("get_t3412_timer", <<>>, rc)>>
            /\ ret' = rc
            /\ IF rc = NBIOT_OK
               THEN /\ unit' = DecodeUnit_T3412(TimerBuf(t3412))
                    /\ multiples' = DecodeMultiples(TimerBuf(t3412), mult_before)
               ELSE /\ unit' = unit_before
                    /\ multiples' = mult_before
       ELSE /\ rc = NBIOT_OK
            /\ calls' = <<>>
            /\ ret' = DRIVER_UNKNOWN
            /\ unit' = unit_before
            /\ multiples' = mult_before
    /\ ModemEffect
    /\ UNCHANGED <<driver, timer_sel, callerVars, lifeVars, timer_binary, t3412, t3324, accepted, statVars, clockVars, postVars>>

get_active_time(unit_before, mult_before, rc) ==
    /\ pc = "idle"
    /\ timer_sel = "T3324"
    /\ pc' = "returned"
    /\ op' = "get_active_time"
    /\ args' = [unit |-> unit_before, multiples |-> mult_before]
    /\ IF driver = SARAN2
       THEN /\ calls' = <<Call("get_t3324_timer", <<>>, rc)>>
            /\ ret' = rc
            /\ IF rc = NBIOT_OK
               THEN /\ unit' = DecodeUnit_T3324(TimerBuf(t3324))
                    /\ multiples' = DecodeMultiples(TimerBuf(t3324), mult_before)
               ELSE /\ unit' = unit_before
                    /\ multiples' = mult_before
       ELSE /\ rc = NBIOT_OK
            /\ calls' = <<>>
            /\ ret' = DRIVER_UNKNOWN
            /\ unit' = unit_before
            /\ multiples' = mult_before
    /\ ModemEffect
    /\ UNCHANGED <<driver, timer_sel, callerVars, lifeVars, timer_binary, t3412, t3324, accepted, statVars, clockVars, postVars>>

(***************************************************************************)
(* Operations that make one driver call and return its code                *)
(* (reboot_modem ... disable_sim_power_save_mode)                          *)
(***************************************************************************)
DriverCallOf ==
    [reboot_modem                |-> <<"reboot_module", <<>>>>,
     get_radio_status            |-> <<"get_radio_status", <<>>>>,
     deactivate_radio            |-> <<"deactivate_radio", <<>>>>,
     activate_radio              |-> <<"activate_radio", <<>>>>,
     gprs_attach                 |-> <<"gprs_attach", <<>>>>,
     gprs_detach                 |-> <<"gprs_detach", <<>>>>,
     auto_register_to_network    |-> <<"auto_register_to_network", <<>>>>,
     deregister_from_network     |-> <<"deregister_from_network", <<>>>>,
     enable_power_save_mode      |-> <<"enable_power_save_mode", <<>>>>,
     disable_power_save_mode     |-> <<"disable_power_save_mode", <<>>>>,
     query_power_save_mode       |-> <<"query_power_save_mode", <<>>>>,
     get_power_save_mode_status  |-> <<"npsmr", <<>>>>,
     get_csq                     |-> <<"csq", <<>>>>,
     get_nuestats                |-> <<"nuestats", <<>>>>,
     enable_autoconnect          |-> <<"configure_ue", <<"AUTOCONNECT", "TRUE">>>>,
     disable_autoconnect         |-> <<"configure_ue", <<"AUTOCONNECT", "FALSE">>>>,
     enable_scrambling           |-> <<"configure_ue", <<"SCRAMBLING", "TRUE">>>>,
     disable_scrambling          |-> <<"configure_ue", <<"SCRAMBLING", "FALSE">>>>,
     enable_si_avoid             |-> <<"configure_ue", <<"SI_AVOID", "TRUE">>>>,
     disable_si_avoid            |-> <<"configure_ue", <<"SI_AVOID", "FALSE">>>>,
     enable_combine_attach       |-> <<"configure_ue", <<"COMBINE_ATTACH", "TRUE">>>>,
     disable_combine_attach      |-> <<"configure_ue", <<"COMBINE_ATTACH", "FALSE">>>>,
     enable_cell_reselection     |-> <<"configure_ue", <<"CELL_RESELECTION", "TRUE">>>>,
     disable_cell_reselection    |-> <<"configure_ue", <<"CELL_RESELECTION", "FALSE">>>>,
     enable_bip                  |-> <<"configure_ue", <<"ENABLE_BIP", "TRUE">>>>,
     disable_bip                 |-> <<"configure_ue", <<"ENABLE_BIP", "FALSE">>>>,
     enable_sim_power_save_mode  |-> <<"configure_ue", <<"NAS_SIM_PSM_ENABLE", "TRUE">>>>,
     disable_sim_power_save_mode |-> <<"configure_ue", <<"NAS_SIM_PSM_ENABLE", "FALSE">>>>]

SingleCallOps == DOMAIN DriverCallOf

\* enable_bip saving the CoAP profile in place of writing its setting
Step_bip_saves_profile(f) ==
    IF f = "enable_bip"
    THEN [fn |-> "save_profile", arg |-> <<"COAP_PROFILE_0">>]
    ELSE [fn |-> DriverCallOf[f][1], arg |-> DriverCallOf[f][2]]

\* every configure_ue call made with SaraN2::TRUE, the disable operations' too
Step_always_true(f) ==
    [fn |-> DriverCallOf[f][1],
     arg |-> IF DriverCallOf[f][1] = "configure_ue"
             THEN <<DriverCallOf[f][2][1], "TRUE">> ELSE DriverCallOf[f][2]]

\* the driver call a one-call facade operation makes
Step(f) == [fn |-> DriverCallOf[f][1], arg |-> DriverCallOf[f][2]]

\* the operations that switch one UE setting on or off
ToggleOps ==
    {"enable_autoconnect", "disable_autoconnect", "enable_scrambling", "disable_scrambling",
     "enable_si_avoid", "disable_si_avoid", "enable_combine_attach", "disable_combine_attach",
     "enable_cell_reselection", "disable_cell_reselection", "enable_bip", "disable_bip",
     "enable_sim_power_save_mode", "disable_sim_power_save_mode"}

(***************************************************************************)
(* A chain of driver calls, each issued only if the one before returned    *)
(* NBIOT_OK.  `n` is the first step the driver fails (Len(steps) + 1 when   *)
(* it fails none) and `code` the code it fails with.                       *)
(***************************************************************************)
ChainCalls(steps, n, code) ==
    [k \in 1..(IF n <= Len(steps) THEN n ELSE Len(steps)) |->
        Call(steps[k].fn, steps[k].arg, IF k = n THEN code ELSE NBIOT_OK)]

ChainRet(steps, n, code) == IF n <= Len(steps) THEN code ELSE NBIOT_OK

\* the outcomes of a chain: where it fails and with what
Outcomes(steps) ==
    {<<n, code>> : n \in 1..Len(steps), code \in DriverErrors} \cup {<<Len(steps) + 1, NBIOT_OK>>}

\* int status = -1; the value the local status variable of every operation starts with
StatusInit == -1

\* a one-call operation that ends in 'return status;' for a driver it does not know
single_call_op_returns_status(f, rc) ==
    /\ pc = "idle"
    /\ pc' = "returned"
    /\ op' = f
    /\ args' = NoArgs
    /\ IF driver = SARAN2
       THEN /\ calls' = <<Call(Step(f).fn, Step(f).arg, rc)>>
            /\ ret' = rc
       ELSE /\ rc = NBIOT_OK
            /\ calls' = <<>>
            /\ ret' = StatusInit
    /\ ModemEffect
    /\ UNCHANGED <<driver, timer_sel, callerVars, lifeVars, timer_binary, timerVars, statVars, clockVars, postVars>>

\* a one-call operation that issues its driver call a second time when the first failed
single_call_op_retry(f, rc) ==
    /\ pc = "idle"
    /\ pc' = "returned"
    /\ op' = f
    /\ args' = NoArgs
    /\ IF driver = SARAN2
       THEN /\ calls' = IF rc # NBIOT_OK
                         THEN <<Call(Step(f).fn, Step(f).arg, rc), Call(Step(f).fn, Step(f).arg, rc)>>
                         ELSE <<Call(Step(f).fn, Step(f).arg, rc)>>
            /\ ret' = rc
       ELSE /\ rc = NBIOT_OK
            /\ calls' = <<>>
            /\ ret' = DRIVER_UNKNOWN
    /\ ModemEffect
    /\ UNCHANGED <<driver, timer_sel, callerVars, lifeVars, timer_binary, timerVars, statVars, clockVars, postVars>>

\* a one-call operation that calls the driver without testing _driver
single_call_op_unchecked(f, rc) ==
    /\ pc = "idle"
    /\ pc' = "returned"
    /\ op' = f
    /\ args' = NoArgs
    /\ calls' = <<Call(Step(f).fn, Step(f).arg, rc)>>
    /\ ret' = rc
    /\ ModemEffect
    /\ UNCHANGED <<driver, timer_sel, callerVars, lifeVars, timer_binary, timerVars, statVars, clockVars, postVars>>

single_call_op(f, rc) ==
    /\ pc = "idle"
    /\ pc' = "returned"
    /\ op' = f
    /\ args' = NoArgs
    /\ IF driver = SARAN2
       THEN /\ calls' = <<Call(Step(f).fn, Step(f).arg, rc)>>
            /\ ret' = rc
       ELSE /\ rc = NBIOT_OK
            /\ calls' = <<>>
            /\ ret' = DRIVER_UNKNOWN
    /\ ModemEffect
    /\ UNCHANGED <<driver, timer_sel, callerVars, lifeVars, timer_binary, timerVars, statVars, clockVars, postVars>>

(***************************************************************************)
(* get_connection_status / get_power_save_mode_status /                    *)
(* get_module_network_status                                               *)
(***************************************************************************)
\* the if/else chain of get_module_network_status without the roaming value 5 of registered
ConnStatusOf_home_only(r, c, p) ==
    IF r = 0 /\ c = 0 /\ p = 0 THEN ACTIVE_NO_NETWORK_ACTIVITY
    ELSE IF r = 2 /\ c = 0 /\ p = 0 THEN ACTIVE_SCANNING_FOR_BASE_STATION
    ELSE IF r = 2 /\ c = 1 /\ p = 0 THEN ACTIVE_STARTING_REGISTRATION
    ELSE IF r = 1 /\ (c = 1 /\ p = 0) THEN ACTIVE_REGISTERED_RRC_CONNECTED
    ELSE IF r = 1 /\ (c = 0 /\ p = 0) THEN ACTIVE_REGISTERED_RRC_RELEASED
    ELSE IF r = 1 /\ (c = 0 /\ p = 1) THEN PSM_REGISTERED
    ELSE IF r = 3 THEN REGISTRATION_FAILED
    ELSE STATE_UNDEFINED

\* the if/else chain of get_module_network_status
ConnStatusOf(r, c, p) ==
    IF r = 0 /\ c = 0 /\ p = 0 THEN ACTIVE_NO_NETWORK_ACTIVITY
    ELSE IF r = 2 /\ c = 0 /\ p = 0 THEN ACTIVE_SCANNING_FOR_BASE_STATION
    ELSE IF r = 2 /\ c = 1 /\ p = 0 THEN ACTIVE_STARTING_REGISTRATION
    ELSE IF (r = 1 \/ r = 5) /\ (c = 1 /\ p = 0) THEN ACTIVE_REGISTERED_RRC_CONNECTED
    ELSE IF (r = 1 \/ r = 5) /\ (c = 0 /\ p = 0) THEN ACTIVE_REGISTERED_RRC_RELEASED
    ELSE IF (r = 1 \/ r = 5) /\ (c = 0 /\ p = 1) THEN PSM_REGISTERED
    ELSE IF r = 3 THEN REGISTRATION_FAILED
    ELSE STATE_UNDEFINED

\* What the modem answers to one status poll: the codes of cscon, cereg and npsmr and
\* the values they report.  A read that is not reached has code NBIOT_OK and value 0.
PollOutcomes(R, C, P) ==
    {[rc1 |-> e, rc2 |-> NBIOT_OK, rc3 |-> NBIOT_OK, c |-> 0, r |-> 0, p |-> 0] :
        e \in DriverErrors}
    \cup {[rc1 |-> NBIOT_OK, rc2 |-> e, rc3 |-> NBIOT_OK, c |-> c, r |-> 0, p |-> 0] :
        e \in DriverErrors, c \in C}
    \cup {[rc1 |-> NBIOT_OK, rc2 |-> NBIOT_OK, rc3 |-> e, c |-> c, r |-> r, p |-> 0] :
        e \in DriverErrors, c \in C, r \in R}
    \cup {[rc1 |-> NBIOT_OK, rc2 |-> NBIOT_OK, rc3 |-> NBIOT_OK, c |-> c, r |-> r, p |-> p] :
        c \in C, r \in R, p \in P}

\* get_connection_status: cscon, then cereg
ConnCalls(o) ==
    <<Call("cscon", <<>>, o.rc1)>>
    \o (IF o.rc1 = NBIOT_OK THEN <<Call("cereg", <<>>, o.rc2)>> ELSE <<>>)

ConnRet(o) == IF o.rc1 # NBIOT_OK THEN o.rc1 ELSE o.rc2

\* get_module_network_status reading npsmr whatever get_connection_status returned
PollCalls_npsmr_always(o) ==
    ConnCalls(o) \o <<Call("npsmr", <<>>, o.rc3)>>

\* get_module_network_status: get_connection_status, then get_power_save_mode_status
PollCalls(o) ==
    ConnCalls(o)
    \o (IF ConnRet(o) = NBIOT_OK THEN <<Call("npsmr", <<>>, o.rc3)>> ELSE <<>>)

PollRet(o) == IF ConnRet(o) # NBIOT_OK THEN ConnRet(o) ELSE o.rc3

\* the caller's variables after the poll; a driver read that fails leaves its variable alone
PollConnected(o, before)  == IF o.rc1 = NBIOT_OK THEN o.c ELSE before
PollRegistered(o, before) == IF ConnRet(o) = NBIOT_OK THEN o.r ELSE before
PollPsm(o, before)        == IF PollRet(o) = NBIOT_OK THEN o.p ELSE before
\* a status query that writes STATE_UNDEFINED into status when a read fails
PollStatus_undefined_on_error(o, before) ==
    IF PollRet(o) = NBIOT_OK THEN ConnStatusOf(o.r, o.c, o.p) ELSE STATE_UNDEFINED

PollStatus(o, before) ==
    IF PollRet(o) = NBIOT_OK THEN ConnStatusOf(o.r, o.c, o.p) ELSE before

get_connection_status(o) ==
    /\ pc = "idle"
    /\ pc' = "returned"
    /\ op' = "get_connection_status"
    /\ args' = NoArgs
    /\ IF driver = SARAN2
       THEN /\ calls' = ConnCalls(o)
            /\ ret' = ConnRet(o)
            /\ connected' = PollConnected(o, connected)
            /\ registered' = PollRegistered(o, registered)
       ELSE /\ calls' = <<>>
            /\ ret' = DRIVER_UNKNOWN
            /\ UNCHANGED <<connected, registered>>
    /\ ModemEffect
    /\ UNCHANGED <<driver, timer_sel, callerVars, lifeVars, timer_binary, timerVars, conn_status, psm, band, clockVars, postVars>>

get_module_network_status(status_before, o) ==
    /\ pc = "idle"
    /\ pc' = "returned"
    /\ op' = "get_module_network_status"
    /\ args' = [status |-> status_before]
    /\ IF driver = SARAN2
       THEN /\ calls' = PollCalls(o)
            /\ ret' = PollRet(o)
            /\ connected' = PollConnected(o, connected)
            /\ registered' = PollRegistered(o, registered)
            /\ psm' = PollPsm(o, psm)
            /\ conn_status' = PollStatus(o, status_before)
       ELSE /\ calls' = <<>>
            /\ ret' = DRIVER_UNKNOWN
            /\ conn_status' = status_before
            /\ UNCHANGED <<connected, registered, psm>>
    /\ ModemEffect
    /\ UNCHANGED <<driver, timer_sel, callerVars, lifeVars, timer_binary, timerVars, band, clockVars, postVars>>

(***************************************************************************)
(* get_band                                                                *)
(***************************************************************************)
\* the band tests of get_band with the bounds of the ranges excluded
BandOf_exclusive(earfcn) ==
    IF earfcn > EARFCN_B8_LOW /\ earfcn < EARFCN_B8_HIGH THEN BAND_8
    ELSE IF earfcn > EARFCN_B20_LOW /\ earfcn < EARFCN_B20_HIGH THEN BAND_20
    ELSE BAND_UNKNOWN

\* the if/else chain of get_band over stats.parameters.earfcn
BandOf(earfcn) ==
    IF earfcn >= EARFCN_B8_LOW /\ earfcn <= EARFCN_B8_HIGH THEN BAND_8
    ELSE IF earfcn >= EARFCN_B20_LOW /\ earfcn <= EARFCN_B20_HIGH THEN BAND_20
    ELSE BAND_UNKNOWN

\* get_nuestats(stats.data), then the band of the EARFCN the driver wrote into stats
get_band(band_before, earfcn, rc) ==
    /\ pc = "idle"
    /\ pc' = "returned"
    /\ op' = "get_band"
    /\ args' = [band |-> band_before, earfcn |-> earfcn]
    /\ IF driver = SARAN2
       THEN /\ calls' = <<Call("nuestats", <<>>, rc)>>
            /\ ret' = rc
            /\ band' = IF rc = NBIOT_OK THEN BandOf(earfcn) ELSE band_before
       ELSE /\ rc = NBIOT_OK
            /\ calls' = <<>>
            /\ ret' = DRIVER_UNKNOWN
            /\ band' = band_before
    /\ ModemEffect
    /\ UNCHANGED <<driver, timer_sel, callerVars, lifeVars, timer_binary, timerVars, conn_status, connected, registered, psm,
                   clockVars, postVars>>

(***************************************************************************)
(* The clock and ThisThread::sleep_for                                     *)
(***************************************************************************)
MaxClock == 2
MaxStall == 1

\* a sleep of less than a second: the clock read by time(NULL) advances by d in {0, 1};
\* it advances at the latest after MaxStall sleeps that left it unchanged
Sleep(ms, d) ==
    /\ d = 0 => stall < MaxStall
    /\ now' = now + d
    /\ stall' = IF d = 0 THEN stall + 1 ELSE 0
    /\ sleeps' = Append(sleeps, [after |-> Len(calls'), ms |-> ms])

(***************************************************************************)
(* ready                                                                   *)
(***************************************************************************)
ready(timeout_s) ==
    /\ pc = "idle"
    /\ now + timeout_s <= MaxClock
    /\ op' = "ready"
    /\ args' = [timeout_s |-> timeout_s]
    /\ calls' = <<>>
    /\ IF driver = SARAN2
       THEN /\ pc' = "ready_loop"
            /\ start_time' = now
            /\ ret' = ret
       ELSE /\ pc' = "returned"
            /\ start_time' = start_time
            /\ ret' = DRIVER_UNKNOWN
    /\ ModemEffect
    /\ UNCHANGED <<driver, timer_sel, callerVars, lifeVars, timer_binary, timerVars, statVars, now, stall, sleeps, postVars>>

\* the loop of ready without its deadline: past the deadline a failed probe is followed by
\* one more sleep (a sleep that is not recorded, so that the states stay finitely many)
ready_loop_no_deadline(rc) ==
    /\ pc = "ready_loop"
    /\ IF rc = NBIOT_OK
       THEN /\ calls' = Append(calls, Call("at", <<>>, rc))
            /\ pc' = "returned"
            /\ ret' = NBIOT_OK
            /\ UNCHANGED <<now, stall, sleeps>>
       ELSE IF now >= start_time + args.timeout_s
       THEN /\ stall' = (stall + 1) % (MaxStall + 1)
            /\ UNCHANGED <<calls, pc, ret, now, sleeps>>
       ELSE /\ calls' = Append(calls, Call("at", <<>>, rc))
            /\ pc' = "ready_loop"
            /\ ret' = ret
            /\ \E d \in {0, 1} : Sleep(500, d)
    /\ ModemEffect
    /\ UNCHANGED <<driver, timer_sel, callerVars, lifeVars, timer_binary, op, args, timerVars, statVars, start_time, postVars>>

\* the loop of ready giving up at the first failed probe, whatever the time
ready_loop_no_retry(rc) ==
    /\ pc = "ready_loop"
    /\ calls' = Append(calls, Call("at", <<>>, rc))
    /\ pc' = "returned"
    /\ ret' = IF rc = NBIOT_OK THEN NBIOT_OK ELSE FAIL_TO_CONNECT
    /\ UNCHANGED <<now, stall, sleeps>>
    /\ ModemEffect
    /\ UNCHANGED <<driver, timer_sel, callerVars, lifeVars, timer_binary, op, args, timerVars, statVars, start_time, postVars>>

\* the loop of ready with the timeout tested before the probe
ready_loop_timeout_first(rc) ==
    /\ pc = "ready_loop"
    /\ IF now >= start_time + args.timeout_s
       THEN /\ rc = NBIOT_OK
            /\ calls' = calls
            /\ pc' = "returned"
            /\ ret' = FAIL_TO_CONNECT
            /\ UNCHANGED <<now, stall, sleeps>>
       ELSE /\ calls' = Append(calls, Call("at", <<>>, rc))
            /\ IF rc = NBIOT_OK
               THEN /\ pc' = "returned"
                    /\ ret' = NBIOT_OK
                    /\ UNCHANGED <<now, stall, sleeps>>
               ELSE /\ pc' = "ready_loop"
                    /\ ret' = ret
                    /\ \E d \in {0, 1} : Sleep(500, d)
    /\ ModemEffect
    /\ UNCHANGED <<driver, timer_sel, callerVars, lifeVars, timer_binary, op, args, timerVars, statVars, start_time, postVars>>

\* one pass of the while(true) of ready
ready_loop(rc) ==
    /\ pc = "ready_loop"
    /\ calls' = Append(calls, Call("at", <<>>, rc))
    /\ IF rc = NBIOT_OK
       THEN /\ pc' = "returned"
            /\ ret' = NBIOT_OK
            /\ UNCHANGED <<now, stall, sleeps>>
       ELSE IF now >= start_time + args.timeout_s
       THEN /\ pc' = "returned"
            /\ ret' = FAIL_TO_CONNECT
            /\ UNCHANGED <<now, stall, sleeps>>
       ELSE /\ pc' = "ready_loop"
            /\ ret' = ret
            /\ \E d \in {0, 1} : Sleep(500, d)
    /\ ModemEffect
    /\ UNCHANGED <<driver, timer_sel, callerVars, lifeVars, timer_binary, op, args, timerVars, statVars, start_time, postVars>>

(***************************************************************************)
(* start                                                                   *)
(***************************************************************************)
\* the set-up calls of start with the reboot issued before the module's power save mode
StartSteps_reboot_early ==
    <<Step("enable_autoconnect"), Step("enable_cell_reselection"),
      Step("enable_sim_power_save_mode"), Step("reboot_modem"),
      Step("enable_power_save_mode")>>

\* the five set-up calls of start, in the order of the code
StartSteps ==
    <<Step("enable_autoconnect"), Step("enable_cell_reselection"),
      Step("enable_sim_power_save_mode"), Step("enable_power_save_mode"),
      Step("reboot_modem")>>

\* TP_Connection_Status conn_status; is declared without a value: what it holds until a
\* poll writes it is any value, one of the registered states, another state, or no state
IndeterminateStatus == {ACTIVE_NO_NETWORK_ACTIVITY, ACTIVE_REGISTERED_RRC_CONNECTED, 99}

\* the condition under which the polling loop of start breaks
StartBreaks(cs) ==
    \/ cs # ACTIVE_REGISTERED_RRC_CONNECTED
    \/ cs # ACTIVE_REGISTERED_RRC_RELEASED
    \/ cs # PSM_REGISTERED

\* the five set-up calls, and the declarations of the locals of the polling loop
start(timeout_s, n, code) ==
    /\ pc = "idle"
    /\ now + timeout_s <= MaxClock
    /\ op' = "start"
    /\ args' = [timeout_s |-> timeout_s]
    /\ IF driver = SARAN2
       THEN /\ calls' = ChainCalls(StartSteps, n, code)
            /\ IF n <= Len(StartSteps)
               THEN /\ pc' = "returned"
                    /\ ret' = code
                    /\ UNCHANGED statVars
               ELSE /\ pc' = "start_poll"
                    /\ ret' = ret
                    /\ conn_status' \in IndeterminateStatus
                    /\ connected' = 0
                    /\ registered' = 0
                    /\ psm' = 0
                    /\ band' = band
       ELSE /\ n = Len(StartSteps) + 1
            /\ calls' = <<>>
            /\ pc' = "returned"
            /\ ret' = DRIVER_UNKNOWN
            /\ UNCHANGED statVars
    /\ ModemEffect
    /\ UNCHANGED <<driver, timer_sel, callerVars, lifeVars, timer_binary, timerVars, clockVars, postVars>>

\* status = get_module_network_status(...); time_t start_time = time(NULL);
start_first_poll(o) ==
    /\ pc = "start_poll"
    /\ pc' = "start_loop"
    /\ calls' = calls \o PollCalls(o)
    /\ connected' = PollConnected(o, connected)
    /\ registered' = PollRegistered(o, registered)
    /\ psm' = PollPsm(o, psm)
    /\ conn_status' = PollStatus(o, conn_status)
    /\ start_time' = now
    /\ ModemEffect
    /\ UNCHANGED <<driver, timer_sel, callerVars, lifeVars, timer_binary, op, args, ret, timerVars, band, now, stall, sleeps, postVars>>

\* one pass of the while(true) of start
start_loop(o) ==
    /\ pc = "start_loop"
    /\ connected' = PollConnected(o, connected)
    /\ registered' = PollRegistered(o, registered)
    /\ psm' = PollPsm(o, psm)
    /\ conn_status' = PollStatus(o, conn_status)
    /\ IF StartBreaks(PollStatus(o, conn_status))
       THEN /\ calls' = calls \o PollCalls(o)
            /\ pc' = "returned"
            /\ ret' = NBIOT_OK
            /\ UNCHANGED <<now, stall, sleeps>>
       ELSE IF now >= start_time + args.timeout_s
       THEN /\ \E rc \in DriverCodes :
                 /\ calls' = calls \o PollCalls(o) \o <<Call("deactivate_radio", <<>>, rc)>>
                 /\ ret' = IF rc # NBIOT_OK THEN rc ELSE FAIL_TO_CONNECT
            /\ pc' = "returned"
            /\ UNCHANGED <<now, stall, sleeps>>
       ELSE /\ calls' = calls \o PollCalls(o)
            /\ pc' = "start_loop"
            /\ ret' = ret
            /\ \E d \in {0, 1} : Sleep(2500, d)
    /\ ModemEffect
    /\ UNCHANGED <<driver, timer_sel, callerVars, lifeVars, timer_binary, op, args, timerVars, band, start_time, postVars>>

(***************************************************************************)
(* configure_coap, coap_get, coap_delete, coap_put                          *)
(***************************************************************************)
\* the steps of configure_coap with the profile saved before it is marked valid
ConfigureSteps_save_first(uri_length) ==
    <<[fn |-> "select_profile", arg |-> <<"COAP_PROFILE_0">>],
      [fn |-> "set_coap_ip_port", arg |-> <<"ipv4", "port">>],
      [fn |-> "set_coap_uri", arg |-> <<"uri", uri_length>>],
      [fn |-> "pdu_header_add_uri_path", arg |-> <<>>],
      [fn |-> "save_profile", arg |-> <<"COAP_PROFILE_0">>],
      [fn |-> "set_profile_validity", arg |-> <<"PROFILE_VALID">>]>>

\* the driver calls of configure_coap, in the order of the code
ConfigureSteps(uri_length) ==
    <<[fn |-> "select_profile", arg |-> <<"COAP_PROFILE_0">>],
      [fn |-> "set_coap_ip_port", arg |-> <<"ipv4", "port">>],
      [fn |-> "set_coap_uri", arg |-> <<"uri", uri_length>>],
      [fn |-> "pdu_header_add_uri_path", arg |-> <<>>],
      [fn |-> "set_profile_validity", arg |-> <<"PROFILE_VALID">>],
      [fn |-> "save_profile", arg |-> <<"COAP_PROFILE_0">>]>>

\* the profile loaded without the AT interface being selected
LoadSteps_no_select ==
    <<[fn |-> "load_profile", arg |-> <<"COAP_PROFILE_0">>]>>

\* load_profile(COAP_PROFILE_0), then select_coap_at_interface()
LoadSteps ==
    <<[fn |-> "load_profile", arg |-> <<"COAP_PROFILE_0">>],
      [fn |-> "select_coap_at_interface", arg |-> <<>>]>>

VerbSteps(verb, ident) ==
    LoadSteps \o <<[fn |-> verb, arg |-> ident]>>

\* an operation that is one chain of driver calls
Chain(name, a, steps, n, code) ==
    /\ pc = "idle"
    /\ pc' = "returned"
    /\ op' = name
    /\ args' = a
    /\ IF driver = SARAN2
       THEN /\ calls' = ChainCalls(steps, n, code)
            /\ ret' = ChainRet(steps, n, code)
       ELSE /\ n = Len(steps) + 1
            /\ calls' = <<>>
            /\ ret' = DRIVER_UNKNOWN
    /\ ModemEffect
    /\ UNCHANGED <<driver, timer_sel, callerVars, lifeVars, timer_binary, timerVars, statVars, clockVars, postVars>>

configure_coap(uri_length, n, code) ==
    Chain("configure_coap", [uri_length |-> uri_length], ConfigureSteps(uri_length), n, code)

coap_get(n, code) ==
    Chain("coap_get", NoArgs, VerbSteps("coap_get", <<>>), n, code)

coap_delete(n, code) ==
    Chain("coap_delete", NoArgs, VerbSteps("coap_delete", <<>>), n, code)

coap_put(ident, n, code) ==
    Chain("coap_put", [data_indentifier |-> ident], VerbSteps("coap_put", <<ident>>), n, code)

(***************************************************************************)
(* coap_post                                                               *)
(***************************************************************************)
BlockSize == 512
MaxBlocks == 3

\* the smallest body whose block count does not fit the 8-bit block counter
WrapLen == Uint8 * BlockSize + 1

\* body lengths: empty, and up to MaxBlocks blocks whose last one is 1 byte, 176 bytes or full
PostLens ==
    {0} \cup {k * BlockSize + r : k \in 0..(MaxBlocks - 1), r \in {1, 176, BlockSize}}
        \cup {WrapLen}

\* the staging buffers that may be live at once: coap_post is not called with MaxLive live
MaxLive == 1

\* what new uint8_t[512] holds: heap content, not bytes of send_data
HeapContent == {-1, -2}

\* load the profile, select the AT interface, allocate the staging buffer
coap_post(len, ident, n, code) ==
    /\ pc = "idle"
    /\ staging_live < MaxLive
    /\ op' = "coap_post"
    /\ args' = [buffer_len |-> len, data_indentifier |-> ident]
    /\ IF driver = SARAN2
       THEN /\ calls' = ChainCalls(LoadSteps, n, code)
            /\ IF n <= Len(LoadSteps)
               THEN /\ pc' = "returned"
                    /\ ret' = code
                    /\ UNCHANGED <<postVars, staging_live>>
               ELSE /\ pc' = "post_loop"
                    /\ ret' = ret
                    /\ buffer_len' = len
                    /\ done' = 0
                    /\ send_block_number' = 0
                    /\ send_more_block' = 0
                    /\ buff512' \in {[i \in 0..(BlockSize - 1) |-> g] : g \in HeapContent}
                    /\ staging_live' = staging_live + 1
       ELSE /\ n = Len(LoadSteps) + 1
            /\ calls' = <<>>
            /\ pc' = "returned"
            /\ ret' = DRIVER_UNKNOWN
            /\ UNCHANGED <<postVars, staging_live>>
    /\ ModemEffect
    /\ UNCHANGED <<driver, timer_sel, callerVars, modem_dtors, timer_binary, timerVars, statVars, clockVars>>

\* long available = buffer_len - done; if (available > 512) available = 512;
Available(len, d) == IF len - d > BlockSize THEN BlockSize ELSE len - d
MoreBlock(len, d) == IF len - d > BlockSize THEN 1 ELSE 0

\* memcpy(buff512, send_data + done, available)
Memcpy(buf, d, available) ==
    [i \in DOMAIN buf |-> IF i < available THEN d + i ELSE buf[i]]

\* the loop of coap_post without the test of the block's status
coap_post_loop_unchecked(rc) ==
    /\ pc = "post_loop"
    /\ IF done < buffer_len
       THEN /\ send_more_block' = MoreBlock(buffer_len, done)
            /\ buff512' = Memcpy(buff512, done, Available(buffer_len, done))
            /\ done' = done + Available(buffer_len, done)
            /\ calls' = Append(calls,
                   Call("coap_post",
                        [block |-> send_block_number,
                         more  |-> MoreBlock(buffer_len, done),
                         ident |-> args.data_indentifier],
                        rc))
            /\ send_block_number' = (send_block_number + 1) % Uint8
            /\ pc' = "post_loop"
            /\ ret' = ret
       ELSE /\ rc = NBIOT_OK
            /\ pc' = "returned"
            /\ ret' = NBIOT_OK
            /\ UNCHANGED <<calls, done, send_block_number, send_more_block, buff512>>
    /\ ModemEffect
    /\ UNCHANGED <<driver, timer_sel, callerVars, lifeVars, timer_binary, op, args, timerVars, statVars, clockVars, buffer_len>>

\* the loop of coap_post with its test after the body: do { ... } while (done < buffer_len)
coap_post_loop_body_first(rc) ==
    /\ pc = "post_loop"
    /\ IF done < buffer_len \/ (done = 0 /\ send_block_number = 0)
       THEN /\ send_more_block' = MoreBlock(buffer_len, done)
            /\ buff512' = Memcpy(buff512, done, Available(buffer_len, done))
            /\ done' = done + Available(buffer_len, done)
            /\ calls' = Append(calls,
                   Call("coap_post",
                        [block |-> send_block_number,
                         more  |-> MoreBlock(buffer_len, done),
                         ident |-> args.data_indentifier],
                        rc))
            /\ send_block_number' = (send_block_number + 1) % Uint8
            /\ IF rc # NBIOT_OK
               THEN /\ pc' = "returned"
                    /\ ret' = rc
               ELSE /\ pc' = "post_loop"
                    /\ ret' = ret
       ELSE /\ rc = NBIOT_OK
            /\ pc' = "returned"
            /\ ret' = NBIOT_OK
            /\ UNCHANGED <<calls, done, send_block_number, send_more_block, buff512>>
    /\ ModemEffect
    /\ UNCHANGED <<driver, timer_sel, callerVars, lifeVars, timer_binary, op, args, timerVars, statVars, clockVars, buffer_len>>

\* the test of while (done < buffer_len), and one pass of its body
coap_post_loop(rc) ==
    /\ pc = "post_loop"
    /\ IF done < buffer_len
       THEN /\ send_more_block' = MoreBlock(buffer_len, done)
            /\ buff512' = Memcpy(buff512, done, Available(buffer_len, done))
            /\ done' = done + Available(buffer_len, done)
            /\ calls' = Append(calls,
                   Call("coap_post",
                        [block |-> send_block_number,
                         more  |-> MoreBlock(buffer_len, done),
                         ident |-> args.data_indentifier],
                        rc))
            /\ send_block_number' = (send_block_number + 1) % Uint8
            /\ IF rc # NBIOT_OK
               THEN /\ pc' = "returned"
                    /\ ret' = rc
               ELSE /\ pc' = "post_loop"
                    /\ ret' = ret
       ELSE /\ rc = NBIOT_OK
            /\ pc' = "returned"
            /\ ret' = NBIOT_OK
            /\ UNCHANGED <<calls, done, send_block_number, send_more_block, buff512>>
    /\ ModemEffect
    /\ UNCHANGED <<driver, timer_sel, callerVars, lifeVars, timer_binary, op, args, timerVars, statVars, clockVars, buffer_len>>

(***************************************************************************)
(* Two threads calling get_connection_status and configure_coap on the     *)
(* same interface object.  Each runs the code of its operation: one driver *)
(* call after the other, returning at the first that fails.  The facade    *)
(* takes no lock; the driver's AT engine holds the transport for the       *)
(* duration of one command.                                                *)
(***************************************************************************)
Callers == {1, 2}

CallerOps == {"get_connection_status", "configure_coap"}

\* get_connection_status reading the registration before the connection
CallerSteps_cereg_first(o) ==
    IF o = "get_connection_status"
    THEN <<[fn |-> "cereg", arg |-> <<>>], [fn |-> "cscon", arg |-> <<>>]>>
    ELSE ConfigureSteps(5)

\* the driver calls of the operation, in the order of the code
CallerSteps(o) ==
    IF o = "get_connection_status"
    THEN <<[fn |-> "cscon", arg |-> <<>>], [fn |-> "cereg", arg |-> <<>>]>>
    ELSE ConfigureSteps(5)

\* a thread that has not called the interface
NotCalling == [op |-> "none", issued |-> 0, at |-> "outside", ret |-> NBIOT_OK]

\* the AT engine takes a command only when no other command holds the transport
TransportFree == in_flight = {}

\* thread c calls operation o
invoke(c, o) ==
    /\ caller[c].at = "outside"
    /\ caller' = [caller EXCEPT ![c] =
            IF driver = SARAN2
            THEN [op |-> o, issued |-> 0, at |-> "facade", ret |-> NBIOT_OK]
            ELSE [op |-> o, issued |-> 0, at |-> "returned", ret |-> DRIVER_UNKNOWN]]
    /\ UNCHANGED <<driver, timer_sel, appVars, timerVars, statVars, clockVars, postVars,
                   modemVars, bus, in_flight, lifeVars, timer_binary>>

\* thread c makes the next driver call of its operation: status = _modem.<fn>(...)
driver_begin(c) ==
    /\ caller[c].at = "facade"
    /\ TransportFree
    /\ caller' = [caller EXCEPT ![c].at = "driver"]
    /\ bus' = Append(bus, [caller |-> c, ev |-> "begin",
                           fn |-> CallerSteps(caller[c].op)[caller[c].issued + 1].fn])
    /\ in_flight' = in_flight \cup {c}
    /\ UNCHANGED <<driver, timer_sel, appVars, timerVars, statVars, clockVars, postVars, modemVars,
                   lifeVars, timer_binary>>

\* the driver call returns rc: the operation returns it if it is not NBIOT_OK or the call
\* was its last, and goes on to its next driver call otherwise
driver_end(c, rc) ==
    /\ caller[c].at = "driver"
    /\ LET n == caller[c].issued + 1
       IN  /\ caller' = [caller EXCEPT ![c] =
                    [op |-> caller[c].op, issued |-> n,
                     at |-> IF rc # NBIOT_OK \/ n = Len(CallerSteps(caller[c].op))
                            THEN "returned" ELSE "facade",
                     ret |-> rc]]
           /\ bus' = Append(bus, [caller |-> c, ev |-> "end", fn |-> CallerSteps(caller[c].op)[n].fn])
           /\ coap_profile' = ProfileAfter(coap_profile,
                    Call(CallerSteps(caller[c].op)[n].fn, CallerSteps(caller[c].op)[n].arg, rc))
    /\ in_flight' = in_flight \ {c}
    /\ UNCHANGED <<driver, timer_sel, appVars, timerVars, statVars, clockVars, postVars, ue_config,
                   lifeVars, timer_binary>>

(***************************************************************************)
(* ~TP_NBIoT_Interface(): the body calls _modem.~SaraN2(); after the body   *)
(* the members are destroyed, _modem among them.  A build without the      *)
(* SaraN2 driver has neither the call nor the member.                      *)
(***************************************************************************)
destructor ==
    /\ pc = "idle"
    /\ pc' = "destroyed"
    /\ modem_dtors' = modem_dtors + (IF driver = SARAN2 THEN 1 ELSE 0)
                                   + (IF driver = SARAN2 THEN 1 ELSE 0)
    /\ UNCHANGED <<driver, timer_sel, callerVars, staging_live, timer_binary, op, args, ret, calls, timerVars,
                   statVars, clockVars, postVars, modemVars>>

(***************************************************************************)
(* The application takes the result and makes its next call with fresh     *)
(* variables.                                                              *)
(***************************************************************************)
Resume ==
    /\ pc = "returned"
    /\ pc' = "idle"
    /\ op' = "none"
    /\ args' = NoArgs
    /\ ret' = NBIOT_OK
    /\ calls' = <<>>
    /\ unit' = 0
    /\ multiples' = 0
    /\ conn_status' = STATE_UNDEFINED
    /\ connected' = 0
    /\ registered' = 0
    /\ psm' = 0
    /\ band' = BAND_UNKNOWN
    /\ start_time' = 0
    /\ stall' = 0
    /\ sleeps' = <<>>
    /\ buffer_len' = 0
    /\ done' = 0
    /\ send_block_number' = 0
    /\ send_more_block' = 0
    /\ buff512' = <<>>
    /\ timer_binary' = NoBinary
    /\ UNCHANGED <<driver, timer_sel, callerVars, lifeVars, t3412, t3324, accepted, now, modemVars>>

(***************************************************************************)
(* Initial states                                                          *)
(***************************************************************************)
\* a session on timer `sel` with a modem that holds one of the strings `held` for it
InitModem(sel, held) ==
    /\ driver \in {SARAN2, UNDEFINED}
    /\ timer_sel \in sel
    /\ pc = "idle"
    /\ op = "none"
    /\ args = NoArgs
    /\ ret = NBIOT_OK
    /\ calls = <<>>
    /\ t3412 \in (IF timer_sel = "T3412" THEN held ELSE {ModemDefaultTimer})
    /\ t3324 \in (IF timer_sel = "T3324" THEN held ELSE {ModemDefaultTimer})
    /\ accepted = NothingAccepted
    /\ unit = 0
    /\ multiples = 0
    /\ conn_status = STATE_UNDEFINED
    /\ connected = 0
    /\ registered = 0
    /\ psm = 0
    /\ band = BAND_UNKNOWN
    /\ now = 0
    /\ start_time = 0
    /\ stall = 0
    /\ sleeps = <<>>
    /\ buffer_len = 0
    /\ done = 0
    /\ send_block_number = 0
    /\ send_more_block = 0
    /\ buff512 = <<>>
    /\ caller = [c \in Callers |-> NotCalling]
    /\ bus = <<>>
    /\ in_flight = {}
    /\ ue_config = [s \in UeSettings |-> 0]
    /\ coap_profile = [working |-> 0, saved |-> 0]
    /\ modem_dtors = 0
    /\ staging_live = 0
    /\ timer_binary = NoBinary

InitWith(sel) == InitModem(sel, {ModemDefaultTimer})

Init == InitWith({"none"})

InitTimer == InitWith({"T3412", "T3324"})

(***************************************************************************)
(* Inputs                                                                  *)
(***************************************************************************)
\* values the indicators take in a stand-alone status query, and during start
RegValues  == 0..5
FlagValues == 0..2
StartRegValues  == {0, 1, 2, 3, 5}
StartFlagValues == {0, 1}
StatusBefore == {ACTIVE_NO_NETWORK_ACTIVITY, STATE_UNDEFINED}
Timeouts == 0..MaxClock
UriLengths == {5, 200, 201, 255}
\* EARFCN values the modem reports: the bounds of both bands, their neighbours, and others
Earfcns ==
    {0, EARFCN_B8_LOW - 1, EARFCN_B8_LOW, 3600, EARFCN_B8_HIGH, EARFCN_B8_HIGH + 1,
     5000, EARFCN_B20_LOW - 1, EARFCN_B20_LOW, 6300, EARFCN_B20_HIGH, EARFCN_B20_HIGH + 1,
     65535}
\* values the caller's band variable may hold before get_band
BandBefore == {BAND_8, BAND_UNKNOWN}
\* int data_indentifier: a content format of the driver's header, and a value that is none
DataIdentifiers == {"TEXT_PLAIN", "NO_CONTENT_FORMAT"}

(***************************************************************************)
(* Specifications                                                          *)
(***************************************************************************)
\* the connection, status and CoAP transfer operations; the operations that only write the
\* modem's UE settings or its CoAP profile are exercised by SpecConfig
Next ==
    \/ \E f \in SingleCallOps \ ToggleOps, rc \in DriverCodes : single_call_op(f, rc)
    \/ \E o \in PollOutcomes(RegValues, FlagValues, {0}) : get_connection_status(o)
    \/ \E s \in StatusBefore, o \in PollOutcomes(RegValues, FlagValues, FlagValues) :
            get_module_network_status(s, o)
    \/ \E b \in BandBefore, e \in Earfcns, rc \in DriverCodes : get_band(b, e, rc)
    \/ \E t \in Timeouts : ready(t)
    \/ \E rc \in DriverCodes : ready_loop(rc)
    \/ \E t \in Timeouts, o \in Outcomes(StartSteps) : start(t, o[1], o[2])
    \/ \E o \in PollOutcomes(StartRegValues, StartFlagValues, StartFlagValues) : start_first_poll(o)
    \/ \E o \in PollOutcomes(StartRegValues, StartFlagValues, StartFlagValues) : start_loop(o)
    \/ \E o \in Outcomes(VerbSteps("coap_get", <<>>)) : coap_get(o[1], o[2])
    \/ \E o \in Outcomes(VerbSteps("coap_delete", <<>>)) : coap_delete(o[1], o[2])
    \/ \E i \in DataIdentifiers : \E o \in Outcomes(VerbSteps("coap_put", <<i>>)) : coap_put(i, o[1], o[2])
    \/ \E len \in PostLens, i \in DataIdentifiers, o \in Outcomes(LoadSteps) :
            coap_post(len, i, o[1], o[2])
    \/ \E rc \in DriverCodes : coap_post_loop(rc)
    \/ Resume

Spec == Init /\ [][Next]_vars

NextTimer ==
    \/ \E u \in T3412Args, m \in MultiplesArgs, rc \in TimerDriverCodes : set_tau_timer(u, m, rc)
    \/ \E u \in T3324Args, m \in MultiplesArgs, rc \in TimerDriverCodes : set_active_time(u, m, rc)
    \/ \E u \in {T3412_HR_320, T3412_INVALID}, m \in MultiplesBefore, rc \in TimerDriverCodes :
            get_tau_timer(u, m, rc)
    \/ \E u \in {T3324_MIN_6, T3324_INVALID}, m \in MultiplesBefore, rc \in TimerDriverCodes :
            get_active_time(u, m, rc)
    \/ Resume

SpecTimer == InitTimer /\ [][NextTimer]_vars

(***************************************************************************)
(* get_tau_timer / get_active_time on a modem that returns any 8-character *)
(* string: every unit prefix of '0' and '1', prefixes with another         *)
(* character, every 5-bit magnitude, and magnitudes with another character *)
(***************************************************************************)
\* a character that is neither '0' nor '1'
OtherChar == Chr1 + 1

UnitPrefixes ==
    {<<a, b, c>> : a \in {Chr0, Chr1}, b \in {Chr0, Chr1}, c \in {Chr0, Chr1}}
    \cup {<<OtherChar, Chr0, Chr0>>, <<Chr0, Chr1, OtherChar>>}

Magnitudes ==
    {<<a, b, c, d, e>> : a \in {Chr0, Chr1}, b \in {Chr0, Chr1}, c \in {Chr0, Chr1},
                         d \in {Chr0, Chr1}, e \in {Chr0, Chr1}}
    \cup {[k \in 1..5 |-> IF k = j THEN OtherChar ELSE Chr1] : j \in 1..5}
    \cup {<<OtherChar, OtherChar, OtherChar, OtherChar, OtherChar>>}

ModemStrings == {u \o m : u \in UnitPrefixes, m \in Magnitudes}

InitDecode == InitModem({"T3412", "T3324"}, ModemStrings)

NextDecode ==
    \/ \E u \in {T3412_HR_320, T3412_INVALID}, m \in MultiplesBefore, rc \in TimerDriverCodes :
            get_tau_timer(u, m, rc)
    \/ \E u \in {T3324_MIN_6, T3324_INVALID}, m \in MultiplesBefore, rc \in TimerDriverCodes :
            get_active_time(u, m, rc)

SpecDecode == InitDecode /\ [][NextDecode]_vars

(***************************************************************************)
(* The operations that write the modem's UE settings and CoAP profile 0,   *)
(* and coap_get, which reads the profile.                                  *)
(***************************************************************************)
NextConfig ==
    \/ \E f \in ToggleOps, rc \in DriverCodes : single_call_op(f, rc)
    \/ \E u \in UriLengths : \E o \in Outcomes(ConfigureSteps(u)) : configure_coap(u, o[1], o[2])
    \/ \E o \in Outcomes(VerbSteps("coap_get", <<>>)) : coap_get(o[1], o[2])
    \/ Resume

SpecConfig == Init /\ [][NextConfig]_vars

(***************************************************************************)
(* A build whose _driver is UNDEFINED: every operation of the facade, none *)
(* of which gets as far as its loop.                                       *)
(***************************************************************************)
InitUnknown == InitWith({"none", "T3412", "T3324"}) /\ driver = UNDEFINED

NextUnknown ==
    \/ \E f \in SingleCallOps, rc \in DriverCodes : single_call_op(f, rc)
    \/ \E o \in PollOutcomes(RegValues, FlagValues, {0}) : get_connection_status(o)
    \/ \E s \in StatusBefore, o \in PollOutcomes(RegValues, FlagValues, FlagValues) :
            get_module_network_status(s, o)
    \/ \E b \in BandBefore, e \in Earfcns, rc \in DriverCodes : get_band(b, e, rc)
    \/ \E t \in Timeouts : ready(t)
    \/ \E t \in Timeouts, o \in Outcomes(StartSteps) : start(t, o[1], o[2])
    \/ \E u \in UriLengths : \E o \in Outcomes(ConfigureSteps(u)) : configure_coap(u, o[1], o[2])
    \/ \E o \in Outcomes(VerbSteps("coap_get", <<>>)) : coap_get(o[1], o[2])
    \/ \E o \in Outcomes(VerbSteps("coap_delete", <<>>)) : coap_delete(o[1], o[2])
    \/ \E i \in DataIdentifiers : \E o \in Outcomes(VerbSteps("coap_put", <<i>>)) : coap_put(i, o[1], o[2])
    \/ \E len \in PostLens, i \in DataIdentifiers, o \in Outcomes(LoadSteps) :
            coap_post(len, i, o[1], o[2])
    \/ \E u \in T3412Args, m \in MultiplesArgs, rc \in TimerDriverCodes : set_tau_timer(u, m, rc)
    \/ \E u \in T3324Args, m \in MultiplesArgs, rc \in TimerDriverCodes : set_active_time(u, m, rc)
    \/ \E u \in {T3412_HR_320, T3412_INVALID}, m \in MultiplesBefore, rc \in TimerDriverCodes :
            get_tau_timer(u, m, rc)
    \/ \E u \in {T3324_MIN_6, T3324_INVALID}, m \in MultiplesBefore, rc \in TimerDriverCodes :
            get_active_time(u, m, rc)
    \/ Resume

SpecUnknown == InitUnknown /\ [][NextUnknown]_vars

(***************************************************************************)
(* One call of any operation of the facade on a freshly constructed        *)
(* interface, run until it returns.                                        *)
(***************************************************************************)
InitCall == InitWith({"none", "T3412", "T3324"})

NextCall ==
    \/ \E f \in SingleCallOps, rc \in DriverCodes : single_call_op(f, rc)
    \/ \E o \in PollOutcomes(RegValues, FlagValues, {0}) : get_connection_status(o)
    \/ \E s \in StatusBefore, o \in PollOutcomes(RegValues, FlagValues, FlagValues) :
            get_module_network_status(s, o)
    \/ \E b \in BandBefore, e \in Earfcns, rc \in DriverCodes : get_band(b, e, rc)
    \/ \E t \in Timeouts : ready(t)
    \/ \E rc \in DriverCodes : ready_loop(rc)
    \/ \E t \in Timeouts, o \in Outcomes(StartSteps) : start(t, o[1], o[2])
    \/ \E o \in PollOutcomes(StartRegValues, StartFlagValues, StartFlagValues) : start_first_poll(o)
    \/ \E o \in PollOutcomes(StartRegValues, StartFlagValues, StartFlagValues) : start_loop(o)
    \/ \E u \in UriLengths : \E o \in Outcomes(ConfigureSteps(u)) : configure_coap(u, o[1], o[2])
    \/ \E o \in Outcomes(VerbSteps("coap_get", <<>>)) : coap_get(o[1], o[2])
    \/ \E o \in Outcomes(VerbSteps("coap_delete", <<>>)) : coap_delete(o[1], o[2])
    \/ \E i \in DataIdentifiers : \E o \in Outcomes(VerbSteps("coap_put", <<i>>)) : coap_put(i, o[1], o[2])
    \/ \E len \in PostLens, i \in DataIdentifiers, o \in Outcomes(LoadSteps) :
            coap_post(len, i, o[1], o[2])
    \/ \E rc \in DriverCodes : coap_post_loop(rc)
    \/ \E u \in T3412Args, m \in MultiplesArgs, rc \in TimerDriverCodes : set_tau_timer(u, m, rc)
    \/ \E u \in T3324Args, m \in MultiplesArgs, rc \in TimerDriverCodes : set_active_time(u, m, rc)
    \/ \E u \in {T3412_HR_320, T3412_INVALID}, m \in MultiplesBefore, rc \in TimerDriverCodes :
            get_tau_timer(u, m, rc)
    \/ \E u \in {T3324_MIN_6, T3324_INVALID}, m \in MultiplesBefore, rc \in TimerDriverCodes :
            get_active_time(u, m, rc)

SpecCall == InitCall /\ [][NextCall]_vars

\* the lifetime of an interface object: its operations, then its destruction
NextLifetime ==
    \/ Next
    \/ destructor

SpecLifetime == Init /\ [][NextLifetime]_vars

(***************************************************************************)
(* ready and start with the thread that runs them scheduled: a loop that   *)
(* can make its next pass makes it.  The clock is the one of Sleep, which  *)
(* advances at the latest after MaxStall sleeps.                           *)
(***************************************************************************)
NextLoops ==
    \/ \E t \in Timeouts : ready(t)
    \/ \E rc \in DriverCodes : ready_loop(rc)
    \/ \E t \in Timeouts, o \in Outcomes(StartSteps) : start(t, o[1], o[2])
    \/ \E o \in PollOutcomes(StartRegValues, StartFlagValues, StartFlagValues) : start_first_poll(o)
    \/ \E o \in PollOutcomes(StartRegValues, StartFlagValues, StartFlagValues) : start_loop(o)
    \/ Resume

SpecLoops ==
    /\ Init
    /\ [][NextLoops]_vars
    /\ WF_vars(\E rc \in DriverCodes : ready_loop(rc))
    /\ WF_vars(\E o \in PollOutcomes(StartRegValues, StartFlagValues, StartFlagValues) :
                    start_first_poll(o))
    /\ WF_vars(\E o \in PollOutcomes(StartRegValues, StartFlagValues, StartFlagValues) :
                    start_loop(o))

(***************************************************************************)
(* Two threads, each making one call on the same interface object.         *)
(***************************************************************************)
NextCallers ==
    \/ \E c \in Callers, o \in CallerOps : invoke(c, o)
    \/ \E c \in Callers : driver_begin(c)
    \/ \E c \in Callers, rc \in DriverCodes : driver_end(c, rc)

SpecCallers == Init /\ [][NextCallers]_vars

(***************************************************************************)
(* Properties                                                              *)
(***************************************************************************)
Returned(f) == pc = "returned" /\ op = f

Registered ==
    {ACTIVE_REGISTERED_RRC_CONNECTED, ACTIVE_REGISTERED_RRC_RELEASED, PSM_REGISTERED}

IsPostBlock(c) == c.fn = "coap_post"

\* the blocks handed to the driver by the running or returned coap_post
PostBlocks == SelectSeq(calls, IsPostBlock)

\* C1: a get_tau_timer / get_active_time that follows an accepted set_tau_timer(u, m) /
\* set_active_time(u, m), on a modem that returns the string it was given, yields
\* unit = u and multiples = m whatever the caller's variables held before the call.
C1_TimerRoundTrip ==
    ((Returned("get_tau_timer") \/ Returned("get_active_time"))
        /\ ret = NBIOT_OK /\ accepted # NothingAccepted)
    => (unit = accepted.unit /\ multiples = accepted.multiples)

\* C2: start returns NBIOT_OK only if its most recent status poll reported one of the
\* registered statuses.
C2_StartOkOnlyWhenRegistered ==
    (Returned("start") /\ ret = NBIOT_OK
        /\ calls[Len(calls)].fn = "npsmr" /\ calls[Len(calls)].rc = NBIOT_OK)
    => conn_status \in Registered

\* C3: when start has set up and rebooted the modem, every driver call succeeded and the
\* status it polled last is not a registered one, start returns only after its timeout
\* has expired, with a deactivate_radio as its last driver call and FAIL_TO_CONNECT.
C3_StartTimeoutDeactivates ==
    (Returned("start") /\ Len(calls) > Len(StartSteps)
        /\ (\A k \in 1..Len(calls) : calls[k].rc = NBIOT_OK)
        /\ conn_status \notin Registered)
    => (/\ ret = FAIL_TO_CONNECT
        /\ calls[Len(calls)].fn = "deactivate_radio"
        /\ now >= start_time + args.timeout_s)

\* C4: fail-fast propagation: a driver call that returns a non-OK code is the last driver
\* call of its facade operation, and the operation returns exactly that code.
C4_FailFast ==
    \A k \in 1..Len(calls) :
        calls[k].rc # NBIOT_OK
        => (k = Len(calls) /\ pc = "returned" /\ ret = calls[k].rc)

\* C5: a coap_post of a body of L bytes that returns NBIOT_OK has handed the driver exactly
\* N = ceil(L / 512) blocks, numbered 0, 1, ..., N - 1 in that order, with the more-block
\* flag 1 on all but the last and 0 on the last.
C5_PostBlockSequence ==
    (Returned("coap_post") /\ ret = NBIOT_OK)
    => LET N == (args.buffer_len + 511) \div 512
       IN  /\ Len(PostBlocks) = N
           /\ \A k \in 1..Len(PostBlocks) :
                /\ PostBlocks[k].arg.block = k - 1
                /\ PostBlocks[k].arg.more = (IF k < N THEN 1 ELSE 0)

\* C6: the buffer handed to the driver for block k of a body of L bytes holds the body
\* bytes [512k, min(512(k+1), L)) in its first cells and no body byte in any other cell
\* (no byte left over from an earlier block).
C6_PostBlockPayload ==
    (op = "coap_post" /\ Len(PostBlocks) > 0)
    => LET k  == Len(PostBlocks) - 1
           lo == 512 * k
           hi == IF 512 * (k + 1) < args.buffer_len THEN 512 * (k + 1) ELSE args.buffer_len
       IN  \A i \in 0..511 :
                IF i < hi - lo THEN buff512[i] = lo + i
                ELSE buff512[i] \notin 0..(args.buffer_len - 1)

\* C7: set_tau_timer and set_active_time called with multiples > 31 return
\* EXCEEDS_MAX_VALUE and make no driver call, for every unit.
C7_ExceedsMaxNoDriverCall ==
    ((Returned("set_tau_timer") \/ Returned("set_active_time")) /\ args.multiples > 31)
    => (ret = EXCEEDS_MAX_VALUE /\ calls = <<>>)

C7_Witness ==
    /\ Returned("set_active_time")
    /\ driver = SARAN2
    /\ args = [unit |-> T3324_MIN_6, multiples |-> 32]
    /\ ret = EXCEEDS_MAX_VALUE

\* the status table: one row per line, the first row that matches decides
TableStatus(r, c, p) ==
    CASE <<r, c, p>> = <<0, 0, 0>> -> ACTIVE_NO_NETWORK_ACTIVITY
      [] <<r, c, p>> = <<2, 0, 0>> -> ACTIVE_SCANNING_FOR_BASE_STATION
      [] <<r, c, p>> = <<2, 1, 0>> -> ACTIVE_STARTING_REGISTRATION
      [] <<r, c, p>> \in {<<1, 1, 0>>, <<5, 1, 0>>} -> ACTIVE_REGISTERED_RRC_CONNECTED
      [] <<r, c, p>> \in {<<1, 0, 0>>, <<5, 0, 0>>} -> ACTIVE_REGISTERED_RRC_RELEASED
      [] <<r, c, p>> \in {<<1, 0, 1>>, <<5, 0, 1>>} -> PSM_REGISTERED
      [] r = 3 -> REGISTRATION_FAILED
      [] OTHER -> STATE_UNDEFINED

\* C8: a successful get_module_network_status sets status to the value the table gives
\* for the (registered, connected, psm) it read, one of the eight enumerated values.
C8_StatusTable ==
    (Returned("get_module_network_status") /\ ret = NBIOT_OK)
    => (/\ conn_status = TableStatus(registered, connected, psm)
        /\ conn_status \in ACTIVE_NO_NETWORK_ACTIVITY..STATE_UNDEFINED)

C8_Witness ==
    /\ Returned("get_module_network_status")
    /\ ret = NBIOT_OK
    /\ <<registered, connected, psm>> = <<1, 0, 1>>
    /\ args.status # PSM_REGISTERED
    /\ conn_status = PSM_REGISTERED

\* unit3 followed by the 5-bit MSB-first binary of m, and a NUL at index 8
ExpectedTimerString(unit3, m) ==
    [k \in 0..8 |->
        IF k < 3 THEN unit3[k + 1]
        ELSE IF k < 8 THEN (IF (m \div (2 ^ (7 - k))) % 2 = 1 THEN 49 ELSE 48)
        ELSE 0]

Unit3_T3412(u) ==
    CASE u = T3412_HR_320 -> <<49, 49, 48>>
      [] u = T3412_HR_10  -> <<48, 49, 48>>
      [] u = T3412_HR_1   -> <<48, 48, 49>>
      [] u = T3412_MIN_10 -> <<48, 48, 48>>
      [] u = T3412_MIN_1  -> <<49, 48, 49>>
      [] u = T3412_SEC_30 -> <<49, 48, 48>>
      [] u = T3412_SEC_2  -> <<48, 49, 49>>
      [] u = T3412_DEACT  -> <<49, 49, 49>>

Unit3_T3324(u) ==
    CASE u = T3324_MIN_6 -> <<48, 49, 48>>
      [] u = T3324_MIN_1 -> <<48, 48, 49>>
      [] u = T3324_SEC_2 -> <<48, 48, 48>>
      [] u = T3324_DEACT -> <<49, 49, 49>>

\* C9: set_tau_timer(u, m) with a T3412 unit u and m in 0..31 makes one driver call,
\* set_t3412_timer, with the 8 characters unit3(u) then the 5-bit MSB-first binary of m,
\* each '0' or '1', and a NUL at index 8.
C9_TauTimerString ==
    (Returned("set_tau_timer") /\ driver = SARAN2
        /\ args.unit \in T3412_HR_320..T3412_DEACT /\ args.multiples \in 0..31)
    => (/\ Len(calls) = 1
        /\ calls[1].fn = "set_t3412_timer"
        /\ calls[1].arg = ExpectedTimerString(Unit3_T3412(args.unit), args.multiples)
        /\ \A k \in 0..7 : calls[1].arg[k] \in {48, 49})

C9_Witness ==
    /\ Returned("set_tau_timer")
    /\ args = [unit |-> T3412_HR_10, multiples |-> 10]
    /\ ret = NBIOT_OK
    /\ Len(calls) = 1
    /\ CStr(calls[1].arg) = <<48, 49, 48, 48, 49, 48, 49, 48>>

\* C10: set_active_time(u, m) with a T3324 unit u and m in 0..31 makes one driver call,
\* set_t3324_timer, with the 8 characters unit3(u) then the 5-bit MSB-first binary of m
\* and a NUL at index 8.
C10_ActiveTimeString ==
    (Returned("set_active_time") /\ driver = SARAN2
        /\ args.unit \in T3324_MIN_6..T3324_DEACT /\ args.multiples \in 0..31)
    => (/\ Len(calls) = 1
        /\ calls[1].fn = "set_t3324_timer"
        /\ calls[1].arg = ExpectedTimerString(Unit3_T3324(args.unit), args.multiples))

C10_Witness ==
    /\ Returned("set_active_time")
    /\ args = [unit |-> T3324_MIN_6, multiples |-> 31]
    /\ ret = NBIOT_OK
    /\ Len(calls) = 1
    /\ CStr(calls[1].arg) = <<48, 49, 48, 49, 49, 49, 49, 49>>

\* C11: set_tau_timer / set_active_time called with multiples <= 31 and a unit that is none
\* of HR_320..DEACT / MIN_6..DEACT (INVALID included) return INVALID_UNIT_VALUE and make no
\* driver call.
C11_InvalidUnitNoDriverCall ==
    /\ (Returned("set_tau_timer") /\ args.multiples <= 31
            /\ args.unit \notin T3412_HR_320..T3412_DEACT)
        => (ret = INVALID_UNIT_VALUE /\ calls = <<>>)
    /\ (Returned("set_active_time") /\ args.multiples <= 31
            /\ args.unit \notin T3324_MIN_6..T3324_DEACT)
        => (ret = INVALID_UNIT_VALUE /\ calls = <<>>)

C11_Witness ==
    /\ Returned("set_active_time")
    /\ driver = SARAN2
    /\ args = [unit |-> T3324_INVALID, multiples |-> 31]
    /\ ret = INVALID_UNIT_VALUE
    /\ calls = <<>>

\* C12 as claimed: when the driver identity is not SARAN2, every facade operation returns
\* DRIVER_UNKNOWN and makes no driver call, whatever its arguments.
C12_AlwaysDriverUnknown ==
    (pc = "returned" /\ driver # SARAN2)
    => (ret = DRIVER_UNKNOWN /\ calls = <<>>)

SetTimerOps == {"set_tau_timer", "set_active_time"}

\* the unit argument of a returned set_* call is one of the enumerated units
ValidUnitArg ==
    IF op = "set_tau_timer" THEN args.unit \in T3412_HR_320..T3412_DEACT
    ELSE args.unit \in T3324_MIN_6..T3324_DEACT

\* C12 amended: when the driver identity is not SARAN2, no facade operation makes a driver
\* call or enters a loop, and every operation returns DRIVER_UNKNOWN, except set_tau_timer
\* and set_active_time, which check their arguments first: EXCEEDS_MAX_VALUE for
\* multiples > 31, else INVALID_UNIT_VALUE for a unit outside the enumerated set.
C12_DriverUnknownAfterArgumentChecks ==
    driver # SARAN2
    => /\ pc \in {"idle", "returned"}
       /\ calls = <<>>
       /\ pc = "returned"
          => ret = (IF op \in SetTimerOps /\ args.multiples > 31 THEN EXCEEDS_MAX_VALUE
                    ELSE IF op \in SetTimerOps /\ ~ValidUnitArg THEN INVALID_UNIT_VALUE
                    ELSE DRIVER_UNKNOWN)

C12_Witness ==
    /\ driver = UNDEFINED
    /\ Returned("set_tau_timer")
    /\ args = [unit |-> T3412_HR_10, multiples |-> 10]
    /\ ret = DRIVER_UNKNOWN
    /\ calls = <<>>

\* the order of the driver steps of configure_coap
ConfigureOrder ==
    <<"select_profile", "set_coap_ip_port", "set_coap_uri", "pdu_header_add_uri_path",
      "set_profile_validity", "save_profile">>

\* C13: configure_coap issues select_profile(0), set_coap_ip_port, set_coap_uri,
\* pdu_header_add_uri_path, set_profile_validity(VALID), save_profile(0) in this order, a
\* step only if all earlier steps returned OK; it returns the first non-OK code, and
\* NBIOT_OK only after save_profile succeeded.
C13_ConfigureCoapOrder ==
    (Returned("configure_coap") /\ driver = SARAN2)
    => LET n == Len(calls)
       IN  /\ n \in 1..6
           /\ \A k \in 1..n : calls[k].fn = ConfigureOrder[k]
           /\ calls[1].arg = <<"COAP_PROFILE_0">>
           /\ n >= 3 => calls[3].arg = <<"uri", args.uri_length>>
           /\ n >= 5 => calls[5].arg = <<"PROFILE_VALID">>
           /\ n >= 6 => calls[6].arg = <<"COAP_PROFILE_0">>
           /\ \A k \in 1..(n - 1) : calls[k].rc = NBIOT_OK
           /\ ret = calls[n].rc
           /\ ret = NBIOT_OK => (n = 6 /\ calls[6].fn = "save_profile")

C13_Witness ==
    /\ Returned("configure_coap")
    /\ driver = SARAN2
    /\ Len(calls) = 4
    /\ calls[4].fn = "pdu_header_add_uri_path"
    /\ calls[4].rc = 59
    /\ ret = 59

VerbOps == {"coap_get", "coap_delete", "coap_put", "coap_post"}

\* C14: in a call of coap_get, coap_delete, coap_put or coap_post the verb's driver call
\* (every POST block) is issued only after load_profile(0) and then
\* select_coap_at_interface returned OK in that call; if either fails, its code is
\* returned and no verb call is issued.
C14_VerbAfterLoadAndSelect ==
    (op \in VerbOps /\ driver = SARAN2)
    => /\ \A k \in 1..Len(calls) :
            calls[k].fn \in VerbOps
            => /\ k >= 3
               /\ calls[k].fn = op
               /\ calls[1] = Call("load_profile", <<"COAP_PROFILE_0">>, NBIOT_OK)
               /\ calls[2] = Call("select_coap_at_interface", <<>>, NBIOT_OK)
       /\ \A j \in 1..2 :
            (j <= Len(calls) /\ calls[j].rc # NBIOT_OK)
            => (pc = "returned" /\ ret = calls[j].rc /\ Len(calls) = j)

C14_Witness ==
    /\ op = "coap_post"
    /\ pc = "post_loop"
    /\ Len(calls) = 4
    /\ calls[3].fn = "coap_post"
    /\ calls[4].fn = "coap_post"

ContentFormats == {"TEXT_PLAIN"}

C17_PostStopsAtFailedBlock ==
    (op = "coap_post" /\ driver = SARAN2)
    => /\ \A k \in 1..Len(calls) :
            (calls[k].fn = "coap_post" /\ calls[k].rc # NBIOT_OK)
            => (k = Len(calls) /\ pc = "returned" /\ ret = calls[k].rc)
       /\ (pc = "returned" /\ ret = NBIOT_OK)
          => /\ \A k \in 1..Len(PostBlocks) : PostBlocks[k].rc = NBIOT_OK
             /\ Len(PostBlocks) = (args.buffer_len + 511) \div 512

C17_Witness ==
    /\ Returned("coap_post")
    /\ args.buffer_len = 3 * 512
    /\ Len(PostBlocks) = 2
    /\ PostBlocks[1].rc = NBIOT_OK
    /\ PostBlocks[2].rc = 59
    /\ ret = 59

\* the driver calls of enable_autoconnect, enable_cell_reselection,
\* enable_sim_power_save_mode, enable_power_save_mode and reboot_modem
StartOrder ==
    <<Call("configure_ue", <<"AUTOCONNECT", "TRUE">>, NBIOT_OK),
      Call("configure_ue", <<"CELL_RESELECTION", "TRUE">>, NBIOT_OK),
      Call("configure_ue", <<"NAS_SIM_PSM_ENABLE", "TRUE">>, NBIOT_OK),
      Call("enable_power_save_mode", <<>>, NBIOT_OK),
      Call("reboot_module", <<>>, NBIOT_OK)>>

PollFns == {"cscon", "cereg", "npsmr"}

\* C18: start issues enable_autoconnect, enable_cell_reselection,
\* enable_sim_power_save_mode, enable_power_save_mode, reboot_modem in this order, a step
\* only if all earlier ones returned OK; a failing step's code is returned at once, and no
\* status poll is issued before reboot_modem returned OK.
C18_StartSetupOrder ==
    (op = "start" /\ driver = SARAN2)
    => LET n == Len(calls)
       IN  /\ n >= 1
           /\ \A k \in 1..5 :
                k <= n
                => /\ calls[k].fn = StartOrder[k].fn
                   /\ calls[k].arg = StartOrder[k].arg
                   /\ calls[k].rc # NBIOT_OK
                      => (n = k /\ pc = "returned" /\ ret = calls[k].rc)
           /\ \A k \in 1..n :
                calls[k].fn \in PollFns => (k > 5 /\ calls[5] = StartOrder[5])
           /\ pc # "returned" => n >= 5

C18_Witness ==
    /\ op = "start"
    /\ pc = "start_loop"
    /\ Len(calls) = 8
    /\ calls[5] = Call("reboot_module", <<>>, NBIOT_OK)
    /\ calls[6].fn = "cscon"

\* C19: with the SARAN2 driver, ready returns NBIOT_OK exactly when one of its at() probes
\* returned NBIOT_OK, and that probe is its last; otherwise it returns a non-OK code, and
\* only once the current time is at least start time + timeout_s.  It issues at least one
\* probe, also when timeout_s = 0.
C19_ReadyProbes ==
    (op = "ready" /\ driver = SARAN2)
    => LET n == Len(calls)
       IN  /\ \A k \in 1..n :
                /\ calls[k].fn = "at"
                /\ calls[k].rc = NBIOT_OK => (k = n /\ pc = "returned" /\ ret = NBIOT_OK)
           /\ pc = "returned"
              => /\ n >= 1
                 /\ ret = NBIOT_OK <=> calls[n].rc = NBIOT_OK
                 /\ ret # NBIOT_OK => now >= start_time + args.timeout_s

C19_Witness ==
    /\ Returned("ready")
    /\ driver = SARAN2
    /\ args.timeout_s = 1
    /\ Len(calls) = 3
    /\ calls[2].rc # NBIOT_OK
    /\ ret = FAIL_TO_CONNECT

\* the EARFCN-to-band table
TableBand(earfcn) ==
    CASE earfcn \in 3450..3799 -> BAND_8
      [] earfcn \in 6150..6449 -> BAND_20
      [] OTHER -> BAND_UNKNOWN

\* C20: a successful get_band sets band from the EARFCN reported by nuestats: 3450..3799
\* gives BAND_8, 6150..6449 gives BAND_20, every other value BAND_UNKNOWN.
C20_BandOfEarfcn ==
    (Returned("get_band") /\ ret = NBIOT_OK)
    => /\ band = TableBand(args.earfcn)
       /\ calls = <<Call("nuestats", <<>>, NBIOT_OK)>>

C20_Witness ==
    /\ Returned("get_band")
    /\ ret = NBIOT_OK
    /\ args = [band |-> BAND_UNKNOWN, earfcn |-> 6449]
    /\ band = BAND_20

(***************************************************************************)
(* C21: for each UE toggle X, a successful enable_X leaves setting X of    *)
(* the modem at 1 and a successful disable_X leaves it at 0, whatever it   *)
(* was before, and every other setting as it was: so enable_X then         *)
(* disable_X leaves X at 0, disable_X then enable_X leaves it at 1, and    *)
(* neither changes another setting.                                        *)
(***************************************************************************)
\* the setting each toggle is about, and the value it is to leave
ToggleTable ==
    [enable_autoconnect          |-> <<"AUTOCONNECT", 1>>,
     disable_autoconnect         |-> <<"AUTOCONNECT", 0>>,
     enable_scrambling           |-> <<"SCRAMBLING", 1>>,
     disable_scrambling          |-> <<"SCRAMBLING", 0>>,
     enable_si_avoid             |-> <<"SI_AVOID", 1>>,
     disable_si_avoid            |-> <<"SI_AVOID", 0>>,
     enable_combine_attach       |-> <<"COMBINE_ATTACH", 1>>,
     disable_combine_attach      |-> <<"COMBINE_ATTACH", 0>>,
     enable_cell_reselection     |-> <<"CELL_RESELECTION", 1>>,
     disable_cell_reselection    |-> <<"CELL_RESELECTION", 0>>,
     enable_bip                  |-> <<"ENABLE_BIP", 1>>,
     disable_bip                 |-> <<"ENABLE_BIP", 0>>,
     enable_sim_power_save_mode  |-> <<"NAS_SIM_PSM_ENABLE", 1>>,
     disable_sim_power_save_mode |-> <<"NAS_SIM_PSM_ENABLE", 0>>]

C21_ToggleWritesOneSetting ==
    [][(pc = "idle" /\ pc' = "returned" /\ op' \in DOMAIN ToggleTable /\ ret' = NBIOT_OK)
        => ue_config' = [ue_config EXCEPT ![ToggleTable[op'][1]] = ToggleTable[op'][2]]]_vars

\* disable_bip has succeeded after enable_bip and enable_scrambling had: BIP is back at 0,
\* scrambling still at 1
C21_Witness ==
    /\ pc = "returned" /\ op = "disable_bip" /\ ret = NBIOT_OK
    /\ ue_config["ENABLE_BIP"] = 0
    /\ ue_config["SCRAMBLING"] = 1
    /\ \A x \in UeSettings \ {"SCRAMBLING"} : ue_config[x] = 0

(***************************************************************************)
(* C22: a successful configure_coap leaves its URI saved in CoAP profile   *)
(* 0; a UE toggle issues configure_ue and no other driver command and      *)
(* leaves the profile, working copy and saved, as it was; a successful     *)
(* coap_get runs on the saved profile and leaves it saved.  So coap_get    *)
(* after configure_coap and any toggles runs on the profile configure_coap *)
(* saved.                                                                  *)
(***************************************************************************)
C22_TogglesLeaveCoapProfile ==
    [][/\ (pc = "idle" /\ op' = "configure_coap" /\ ret' = NBIOT_OK)
            => coap_profile'.saved = args'.uri_length
       /\ (pc = "idle" /\ op' \in DOMAIN ToggleTable)
            => /\ coap_profile' = coap_profile
               /\ \A k \in 1..Len(calls') : calls'[k].fn = "configure_ue"
       /\ (pc = "idle" /\ op' = "coap_get" /\ ret' = NBIOT_OK)
            => /\ coap_profile'.saved = coap_profile.saved
               /\ coap_profile'.working = coap_profile.saved]_vars

\* coap_get has succeeded on the 200-byte URI configure_coap saved, with toggles made and
\* a later configure_coap that failed before its save
C22_Witness ==
    /\ pc = "returned" /\ op = "coap_get" /\ ret = NBIOT_OK
    /\ coap_profile = [working |-> 200, saved |-> 200]
    /\ ue_config["ENABLE_BIP"] = 1
    /\ ue_config["AUTOCONNECT"] = 1

BegunBy(c) == SelectSeq(bus, LAMBDA e : e.caller = c /\ e.ev = "begin")

\* the order in which each operation is to make its driver calls
CallerOrder(o) == IF o = "get_connection_status" THEN <<"cscon", "cereg">> ELSE ConfigureOrder

LoopOps == {"ready", "start"}

(***************************************************************************)
(* C24: an operation other than ready and start issues each driver command *)
(* of its sequence at most once in a call (no driver function twice; in    *)
(* coap_post no more block transfers than the body has blocks), a command  *)
(* that failed is the last one issued and its code is what is returned;    *)
(* the same holds of the set-up commands of start, before its polls;       *)
(* reboot_modem issues reboot_module exactly once and returns its result.  *)
(***************************************************************************)
C24_NoRetry ==
    /\ (op = "start" /\ driver = SARAN2)
        => \A k \in 1..Len(calls) : k <= Len(StartOrder)
                => /\ \A i \in 1..(k - 1) :
                        <<calls[i].fn, calls[i].arg>> # <<calls[k].fn, calls[k].arg>>
                   /\ calls[k].rc # NBIOT_OK => (k = Len(calls) /\ ret = calls[k].rc)
    /\ (op \notin LoopOps \cup {"none"} /\ driver = SARAN2)
        => /\ \A i, j \in 1..Len(calls) :
                (i < j /\ calls[i].fn = calls[j].fn)
                    => (op = "coap_post" /\ IsPostBlock(calls[i]))
           /\ op = "coap_post"
                => Len(PostBlocks) <= (buffer_len + BlockSize - 1) \div BlockSize
           /\ \A k \in 1..Len(calls) : calls[k].rc # NBIOT_OK
                => (k = Len(calls) /\ pc = "returned" /\ ret = calls[k].rc)
           /\ Returned("reboot_modem")
                => (Len(calls) = 1 /\ calls[1].fn = "reboot_module" /\ ret = calls[1].rc)

\* reboot_modem has returned the code of a reboot_module that failed, issued once
C24_Witness ==
    /\ Returned("reboot_modem")
    /\ driver = SARAN2
    /\ calls = <<Call("reboot_module", <<>>, 59)>>
    /\ ret = 59

FacadeCodes == {DRIVER_UNKNOWN, EXCEEDS_MAX_VALUE, INVALID_UNIT_VALUE, FAIL_TO_CONNECT}

(***************************************************************************)
(* C26: with every driver call returning 0 or a code in 1..59, whatever a  *)
(* facade operation returns is 0, a code in 1..59 or one of 60, 61, 62,    *)
(* 63; the -1 its status variable starts with is never returned.           *)
(***************************************************************************)
C26_ReturnValueRange ==
    /\ DriverCodes \subseteq 0..59
    /\ TimerDriverCodes \subseteq 0..59
    /\ pc = "returned" => (ret \in ({0} \cup (1..59) \cup FacadeCodes) /\ ret # StatusInit)

\* a get_tau_timer for which the driver is not known has returned DRIVER_UNKNOWN
C26_Witness ==
    /\ Returned("get_tau_timer")
    /\ driver = UNDEFINED
    /\ ret = DRIVER_UNKNOWN

\* the timer string the modem returned to the get_* call that has returned
ReturnedString == IF op = "get_tau_timer" THEN t3412 ELSE t3324

GetTimerOps == {"get_tau_timer", "get_active_time"}

\* 1 for the character '1', 0 for any other
Bit(ch) == IF ch = 49 THEN 1 ELSE 0

\* the place values 16, 8, 4, 2, 1 of the characters at positions 3..7 (counted from 0)
PlaceValueSum(str) ==
    16 * Bit(str[4]) + 8 * Bit(str[5]) + 4 * Bit(str[6]) + 2 * Bit(str[7]) + Bit(str[8])

(***************************************************************************)
(* C27: when the caller's multiples is 0 before the call and the modem     *)
(* returns an 8-character string, get_tau_timer / get_active_time leave in *)
(* multiples the sum of the place values 16, 8, 4, 2, 1 of the positions   *)
(* 3..7 that hold '1', any other character counting 0: a value in 0..31.   *)
(***************************************************************************)
C27_DecodeMagnitude ==
    (pc = "returned" /\ op \in GetTimerOps /\ driver = SARAN2 /\ ret = NBIOT_OK
        /\ args.multiples = 0)
    => /\ multiples = PlaceValueSum(ReturnedString)
       /\ multiples \in 0..31

\* get_active_time has decoded "01011211": 16 + 8 + 0 + 2 + 1, the '2' counting 0
C27_Witness ==
    /\ Returned("get_active_time")
    /\ driver = SARAN2 /\ ret = NBIOT_OK
    /\ args.multiples = 0
    /\ t3324 = <<48, 49, 48, 49, 49, 50, 49, 49>>
    /\ multiples = 27

\* the unit whose 3-character code is the start of the string, INVALID when there is none
UnitOfPrefix_T3412(str) ==
    IF \E u \in T3412_HR_320..T3412_DEACT : Unit3_T3412(u) = SubSeq(str, 1, 3)
    THEN CHOOSE u \in T3412_HR_320..T3412_DEACT : Unit3_T3412(u) = SubSeq(str, 1, 3)
    ELSE T3412_INVALID

UnitOfPrefix_T3324(str) ==
    IF \E u \in T3324_MIN_6..T3324_DEACT : Unit3_T3324(u) = SubSeq(str, 1, 3)
    THEN CHOOSE u \in T3324_MIN_6..T3324_DEACT : Unit3_T3324(u) = SubSeq(str, 1, 3)
    ELSE T3324_INVALID

\* the prefixes of '0' and '1' that are the code of no T3324 unit
UnusedT3324Prefixes == {<<48, 49, 49>>, <<49, 48, 48>>, <<49, 48, 49>>, <<49, 49, 48>>}

(***************************************************************************)
(* C28: a get_tau_timer / get_active_time that returns NBIOT_OK leaves in  *)
(* unit the unit whose code equals the first 3 characters of the returned  *)
(* string, and INVALID when no code does (for T3324 the prefixes 011, 100, *)
(* 101, 110), whatever unit held before the call.                          *)
(***************************************************************************)
C28_DecodeUnit ==
    (pc = "returned" /\ op \in GetTimerOps /\ driver = SARAN2 /\ ret = NBIOT_OK)
    => /\ op = "get_tau_timer" => unit = UnitOfPrefix_T3412(t3412)
       /\ op = "get_active_time" => unit = UnitOfPrefix_T3324(t3324)
       /\ (op = "get_active_time" /\ SubSeq(t3324, 1, 3) \in UnusedT3324Prefixes)
            => unit = T3324_INVALID

\* get_active_time called with unit = MIN_6 has decoded a string that starts with 101:
\* unit is INVALID
C28_Witness ==
    /\ Returned("get_active_time")
    /\ driver = SARAN2 /\ ret = NBIOT_OK
    /\ args.unit = T3324_MIN_6
    /\ SubSeq(t3324, 1, 3) = <<49, 48, 49>>
    /\ unit = T3324_INVALID

(***************************************************************************)
(* C29: within one coap_post call the block numbers handed to the driver   *)
(* are strictly increasing, for every body length, bodies of more than 256 *)
(* blocks included.                                                        *)
(***************************************************************************)
C29_BlockNumbersIncrease ==
    op = "coap_post"
    => \A k \in 1..(Len(PostBlocks) - 1) :
            PostBlocks[k].arg.block < PostBlocks[k + 1].arg.block

\* the sleeps made after the k-th driver call of the operation and before its next one
SleepsAfter(k) == {i \in 1..Len(sleeps) : sleeps[i].after = k}

\* between the k-th driver call and the next there is one sleep, of ms milliseconds
OneSleepAfter(k, ms) ==
    /\ Cardinality(SleepsAfter(k)) = 1
    /\ \A i \in SleepsAfter(k) : sleeps[i].ms = ms

\* in ready every two consecutive at() probes are separated by one 500 ms sleep, and no
\* sleep follows the probe on which ready returns
ReadySleeps ==
    /\ (op = "ready" /\ driver = SARAN2)
        => \A k \in 1..(Len(calls) - 1) : OneSleepAfter(k, 500)
    /\ Returned("ready") => SleepsAfter(Len(calls)) = {}

(***************************************************************************)
(* C30: in ready every two consecutive at() probes are separated by        *)
(* exactly one 500 ms sleep; in start every two consecutive                *)
(* get_module_network_status polls after the reboot (each begins with a    *)
(* cscon read) are separated by exactly one 2500 ms sleep; no sleep        *)
(* follows the attempt on which the operation returns.                     *)
(***************************************************************************)
C30_OneSleepBetweenRetries ==
    /\ ReadySleeps
    /\ (op = "start" /\ driver = SARAN2)
        => \A k \in (Len(StartOrder) + 1)..(Len(calls) - 1) :
                calls[k + 1].fn = "cscon" => OneSleepAfter(k, 2500)
    /\ Returned("start") => SleepsAfter(Len(calls)) = {}

\* ready or start is running: it has been called and has not returned
InLoopOp == pc \in {"ready_loop", "start_poll", "start_loop"}

(***************************************************************************)
(* C31: with a clock that advances while the loop sleeps, every call of    *)
(* ready and of start returns, whatever the modem replies, a modem that    *)
(* never answers OK and never registers included.                          *)
(***************************************************************************)
C31_LoopsReturn == InLoopOp ~> (pc = "returned")

\* ready(2) has returned FAIL_TO_CONNECT on a modem that failed every one of its probes
C31_Witness ==
    /\ Returned("ready")
    /\ args.timeout_s = 2
    /\ ret = FAIL_TO_CONNECT
    /\ Len(calls) >= 3
    /\ \A k \in 1..Len(calls) : calls[k].rc # NBIOT_OK

(***************************************************************************)
(* C32: the modem object owned by the interface is destroyed exactly once  *)
(* when the interface is destroyed: ~SaraN2() has run on _modem once,      *)
(* never twice.                                                            *)
(***************************************************************************)
C32_ModemDestroyedOnce ==
    (pc = "destroyed" /\ driver = SARAN2) => modem_dtors = 1

(***************************************************************************)
(* C34: every staging buffer allocated by coap_post is released before the *)
(* call returns, on the success path and on every error return: when       *)
(* coap_post has returned, and when the interface is idle after any        *)
(* sequence of calls, no staging buffer is live.                           *)
(***************************************************************************)
C34_NoLiveStagingBuffer ==
    (Returned("coap_post") \/ pc = "idle") => staging_live = 0

(***************************************************************************)
(* C33: in start, the connection status that the loop compares against the *)
(* registered states was written by a get_module_network_status call that  *)
(* returned NBIOT_OK: when start has made its comparison and returned, the *)
(* poll before the comparison went through to npsmr and npsmr returned     *)
(* NBIOT_OK.                                                               *)
(***************************************************************************)
C33_StartDecidesOnPolledStatus ==
    (Returned("start") /\ Len(calls) > Len(StartSteps))
    => /\ calls[Len(calls)].fn = "npsmr"
       /\ calls[Len(calls)].rc = NBIOT_OK

\* the indicator reads of one status query, in the order of the code
PollOrder == <<"cscon", "cereg", "npsmr">>

(***************************************************************************)
(* C35: get_module_network_status reads the indicators in the order cscon, *)
(* cereg, npsmr, each at most once per call; a read is issued only if the  *)
(* earlier ones returned NBIOT_OK, and when a read fails its code is       *)
(* returned and the later reads are not issued.                            *)
(***************************************************************************)
C35_PollReadOrder ==
    (Returned("get_module_network_status") /\ driver = SARAN2)
    => LET n == Len(calls)
       IN  /\ n \in 1..Len(PollOrder)
           /\ \A k \in 1..n : calls[k].fn = PollOrder[k]
           /\ \A k \in 1..(n - 1) : calls[k].rc = NBIOT_OK
           /\ n < Len(PollOrder) => calls[n].rc # NBIOT_OK
           /\ ret = calls[n].rc

\* a status query has returned the code of its failed cereg read, npsmr not read
C35_Witness ==
    /\ Returned("get_module_network_status")
    /\ Len(calls) = 2
    /\ calls[2].fn = "cereg"
    /\ calls[2].rc # NBIOT_OK
    /\ ret = calls[2].rc

(***************************************************************************)
(* C36: derived outputs are unchanged on error: when the driver read       *)
(* fails, get_module_network_status leaves status, get_band leaves band,   *)
(* and get_tau_timer / get_active_time leave unit and multiples as the     *)
(* caller passed them.                                                     *)
(***************************************************************************)
C36_OutputsUnwrittenOnError ==
    (pc = "returned" /\ driver = SARAN2 /\ ret # NBIOT_OK)
    => /\ (op = "get_module_network_status" => conn_status = args.status)
       /\ (op = "get_band" => band = args.band)
       /\ (op \in GetTimerOps => (unit = args.unit /\ multiples = args.multiples))

\* a status query whose read failed has returned, the caller's status still the active
\* state it held before the call
C36_Witness ==
    /\ Returned("get_module_network_status")
    /\ driver = SARAN2
    /\ ret # NBIOT_OK
    /\ args.status = ACTIVE_NO_NETWORK_ACTIVITY
    /\ conn_status = ACTIVE_NO_NETWORK_ACTIVITY

\* the driver calls that are handed recv_data and response_code
VerbFns == {"coap_get", "coap_delete", "coap_put", "coap_post"}

\* recv_data and response_code have been handed to the driver by the operation
OutputsHandedOver == \E k \in 1..Len(calls) : calls[k].fn \in VerbFns

(***************************************************************************)
(* C37: coap_post with body length 0 transmits no block: after load_profile *)
(* and select_coap_at_interface have succeeded it returns NBIOT_OK without *)
(* any driver coap_post call, and recv_data and response_code, which only  *)
(* the driver's coap_post writes, are not handed to the driver.            *)
(***************************************************************************)
C37_EmptyBodySendsNothing ==
    (/\ Returned("coap_post")
     /\ driver = SARAN2
     /\ args.buffer_len = 0
     /\ Len(calls) >= Len(LoadSteps)
     /\ \A k \in 1..Len(LoadSteps) : calls[k].rc = NBIOT_OK)
    => /\ ret = NBIOT_OK
       /\ Len(calls) = Len(LoadSteps)
       /\ PostBlocks = <<>>
       /\ ~OutputsHandedOver

\* coap_post of an empty body has returned after its two set-up calls
C37_Witness ==
    /\ Returned("coap_post")
    /\ driver = SARAN2
    /\ args.buffer_len = 0
    /\ Len(calls) = Len(LoadSteps)
    /\ calls[Len(LoadSteps)].rc = NBIOT_OK
    /\ ret = NBIOT_OK

\* the bit of m with place value 2^e
BitOf(m, e) == (m \div (2 ^ e)) % 2

(***************************************************************************)
(* C38: for every m in 0..31, dec_to_bin_5_bit(m) writes into binary[0..4] *)
(* the 5-character MSB-first binary representation of m, left-padded with  *)
(* '0', and writes nothing beyond index 5: the cells 6 and 7 of the        *)
(* caller's array are as they were.                                        *)
(***************************************************************************)
C38_FiveBitBinary ==
    (pc = "returned" /\ op \in SetTimerOps /\ args.multiples \in 0..31)
    => /\ DOMAIN timer_binary = 0..7
       /\ \A k \in 0..4 : timer_binary[k] = Chr0 + BitOf(args.multiples, 4 - k)
       /\ \A k \in 6..7 : timer_binary[k] = Unwritten

\* set_tau_timer(., 10) has returned with "01010" in binary[0..4]
C38_Witness ==
    /\ Returned("set_tau_timer")
    /\ args.multiples = 10
    /\ \A k \in 0..4 : timer_binary[k] = <<48, 49, 48, 49, 48>>[k + 1]
    /\ timer_binary[5] = NUL

====
